---- MODULE Spec2Model ----
(***************************************************************************)
(* A model of the ACE task/skill orchestration layer (src/ace-task/        *)
(* ace-task.py and src/ace-skill/ace_skill_utils.py): the trajectory, the  *)
(* curator, the escalation policy, the skill sub-loop and the delta        *)
(* playbook merge.                                                         *)
(*                                                                         *)
(* Text is modelled at word granularity: a Python str is a sequence of     *)
(* word tokens, str.lower() lower-cases every token, and "x in s" is the   *)
(* occurrence of x as a contiguous run of tokens of s.                     *)
(***************************************************************************)
EXTENDS Integers, Sequences, FiniteSets, TLC

VARIABLES
    pc,               \* position of the control thread of the specification
    msg,              \* the outer message under evaluation (run_task's msg)
    trajectory,       \* TaskTrajectory: task_id, messages, delta_updates
    playbook,         \* DeltaPlaybook: items, version, updated_at, token_budget
    tool_history,     \* task_curator.tool_history (module-level TaskCurator)
    curator_summary,  \* the TaskCuratorSummary of the latest evaluation
    escalate,         \* the latest result of should_invoke_skill_loop
    merge_call,       \* the latest validate_and_merge call: argument, playbook before, result
    sessions,         \* the latest result of get_skill_sessions
    clock,            \* datetime.now(), a logical clock
    outer,            \* the messages the outer session has yielded, as it yielded them
    inners,           \* per sub-loop, the messages its inner session has yielded
    skill_messages,   \* run_skill_sub_loop's local list skill_messages
    queries,          \* the prompts sent to the outer session with client.query
    active_subloops,  \* the inner sessions that are open (entered, not yet drained)
    error,            \* the exception that left run_task, if one did
    returned,         \* what the caller of run_task received: <<>> or <<trajectory>>
    validation,       \* the latest result of validate_claude_directory in run_skill_sub_loop
    playbook_context, \* the latest playbook.to_context_dict() given to a SkillLoop
    tool_action,      \* the tool action a session is about to execute: loop and input_data
    hook_output,      \* what the PreToolUse hooks of that loop returned for it
    executed,         \* the tool actions that were executed, in order
    hook_context,     \* what the hooks keep on their context: tool_history, tool_results
    document,         \* the file at the playbook path: which members of the JSON object it holds
    payload,          \* the local payload of the DeltaPlaybook.save in progress, as JSON
    loaded,           \* the latest result of DeltaPlaybook.load
    main_io,          \* what the caller of run_task has done: loads, saves, exported trajectories
    lock,             \* TranscriptWriter.lock: 0 or the thread that holds it
    writer,           \* TranscriptWriter: started, file_handle (0 is None)
    transcript,       \* the transcript file: the pieces written, each with its handle
    threads,          \* per thread, the TranscriptWriter call it executes and its position
    calls,            \* the TranscriptWriter calls made so far
    executor          \* TaskExecutor.execute_task: arguments, what it installed, its outcome

vars == <<pc, msg, trajectory, playbook, tool_history, curator_summary, escalate,
          merge_call, sessions, clock, outer, inners, skill_messages, queries,
          active_subloops, error, returned, validation, playbook_context, tool_action, hook_output,
          executed, hook_context, document, payload, loaded, main_io, lock, writer,
          transcript, threads, calls, executor>>

curatorVars == <<msg, tool_history, curator_summary, escalate>>
runVars == <<outer, inners, skill_messages, queries, active_subloops, error, returned,
            validation, playbook_context>>
guardVars == <<tool_action, hook_output, executed, hook_context>>
persistVars == <<document, payload, loaded, main_io>>
transcriptVars == <<lock, writer, transcript, threads, calls, executor>>

----------------------------------------------------------------------------
(* Bounds of the model. *)

MaxDeltas == 10      \* delta updates accumulated in the escalation-policy specification
MaxHistory == 4      \* tool invocations evaluated in the escalation-policy specification
MaxMerges == 3       \* validate_and_merge calls in the merge specification
MaxMessages == 5     \* messages appended in the trajectory specification
MaxOuter == 3        \* events the outer session yields in one run
MaxInner == 3        \* events the inner sessions of one run yield, all together
MaxToolActions == 2  \* tool actions executed in the guard specification
MaxSaves == 2        \* saves of the playbook in the persistence specification
MaxLoads == 2        \* loads of the playbook in the persistence specification
MaxCalls == 4        \* calls on the TranscriptWriter in the transcript specification

----------------------------------------------------------------------------
(* Python values. *)

NoTag == "<absent>"                      \* a key absent from a metadata dict
NoId == <<>>                             \* an absent trajectory_id
NoMetadata == [loop_type |-> NoTag, trajectory_id |-> NoId, hook_decision |-> <<>>]

Last(s) == s[Len(s)]

\* str.lower(), token by token
LowerWord(w) ==
    CASE w = "Reusable" -> "reusable"
      [] w = "Pattern" -> "pattern"
      [] w = "Start" -> "start"
      [] w = "Avoid" -> "avoid"
      [] w = "LIMIT" -> "limit"
      [] OTHER -> w

Lower(s) == [i \in 1..Len(s) |-> LowerWord(s[i])]

\* Python's "phrase in text" for strings
Contains(text, phrase) ==
    \E i \in 0..(Len(text) - Len(phrase)) :
        \A j \in 1..Len(phrase) : text[i + j] = phrase[j]

\* A message of the session stream.  src/run/seq identify the object (which
\* stream produced it and at which position); they are never read by the program.
Message(src, run, seq, kind, is_str, content, name, input, timestamp, metadata) ==
    [src |-> src, run |-> run, seq |-> seq, kind |-> kind,
     content_is_str |-> is_str, content |-> content, name |-> name,
     input |-> input, timestamp |-> timestamp, metadata |-> metadata]

NoInput == [has_content |-> FALSE, content |-> <<>>]
NoTime == -1                             \* a message without a timestamp attribute
NoMessage == Message("none", 0, 0, "none", FALSE, <<>>, "", NoInput, NoTime, NoMetadata)

\* msg.content if isinstance(msg.content, str) else ""
TextOf(message) == IF message.content_is_str THEN message.content ELSE <<>>

----------------------------------------------------------------------------
(* TaskCurator *)

NoSummary ==
    [summary |-> <<>>, proposed_updates_token_count |-> 0,
     pending_requests |-> <<>>, duplicate_patterns |-> <<>>,
     escalation_notes |-> FALSE]

TokensPerDelta == 200
SummaryLength == 200

\* s[:n]
Take(s, n) == SubSeq(s, 1, IF Len(s) < n THEN Len(s) ELSE n)

ExtractSummary(message) ==
    CASE message.kind = "assistant" -> Take(TextOf(message), SummaryLength)
      [] message.kind = "result" -> <<"Task", "session", "completed">>
      [] message.kind = "tool_use" -> <<"Tool", "invoked:", message.name>>
      [] message.kind = "tool_result" -> <<"Tool", "result", "received", "(", message.name, ")">>
      [] OTHER -> <<message.kind>>

DetectPendingRequests(message) ==
    IF message.kind = "assistant"
    THEN LET lowered == Lower(TextOf(message))
         IN  (IF Contains(lowered, <<"start", "skill", "loop">>)
              THEN <<"start_skill_loop">> ELSE <<>>)
             \o (IF Contains(lowered, <<"needs", "reference">>)
                 THEN <<"fetch_reference">> ELSE <<>>)
    ELSE <<>>

HistoryAfterClearMut(history, message) ==
    IF message.kind # "tool_use" THEN history
    ELSE IF Len(history) >= 2 /\ history[Len(history)] = message.name
                              /\ history[Len(history) - 1] = message.name
    THEN <<>>
    ELSE Append(history, message.name)

HistoryAfterMut(history, message) ==
    Append(history, IF message.kind = "tool_use" THEN message.name ELSE message.kind)

\* self.tool_history after _detect_duplicate_patterns(message)
HistoryAfter(history, message) ==
    IF message.kind = "tool_use" THEN Append(history, message.name) ELSE history

DuplicateFlag(name) == <<"repeat:", name>>

\* self.tool_history[-3:]
LastThree(history) ==
    SubSeq(history, IF Len(history) > 3 THEN Len(history) - 2 ELSE 1, Len(history))

TailIdenticalMut(history) ==
    /\ Len(history) >= 2
    /\ Cardinality({LastThree(history)[i] : i \in 2..Len(LastThree(history))}) = 1

\* len(self.tool_history) >= 3 and len(set(tail)) == 1
TailIdentical(history) ==
    /\ Len(history) >= 3
    /\ Cardinality({LastThree(history)[i] : i \in 1..Len(LastThree(history))}) = 1

\* the list returned by _detect_duplicate_patterns(message); history is the
\* curator's history before the call
DetectDuplicatePatterns(history, message) ==
    IF message.kind = "tool_use"
    THEN LET h == HistoryAfter(history, message)
         IN  IF TailIdentical(h) THEN <<DuplicateFlag(LastThree(h)[1])>> ELSE <<>>
    ELSE <<>>

SummarizeForOuterLoop(history, traj, message) ==
    LET duplicate_patterns == DetectDuplicatePatterns(history, message)
    IN  [summary |-> ExtractSummary(message),
         proposed_updates_token_count |-> Len(traj.delta_updates) * TokensPerDelta,
         pending_requests |-> DetectPendingRequests(message),
         duplicate_patterns |-> duplicate_patterns,
         escalation_notes |-> (duplicate_patterns # <<>>)]

----------------------------------------------------------------------------
(* Escalation policy *)

InList(x, list) == \E i \in 1..Len(list) : list[i] = x

ShouldStartSkillInnerLoopMut(cs, token_threshold) ==
    \/ InList("start_skill_loop", cs.pending_requests)
    \/ /\ cs.proposed_updates_token_count > token_threshold
       /\ cs.proposed_updates_token_count > 0

ShouldStartSkillInnerLoop(cs, token_threshold) ==
    \/ InList("start_skill_loop", cs.pending_requests)
    \/ /\ cs.proposed_updates_token_count >= token_threshold
       /\ cs.proposed_updates_token_count > 0

Keywords == <<"reusable", "pattern", "skill", "generalize", "template">>

HasSkillKeyword(message) ==
    /\ message.kind = "assistant"
    /\ \E k \in 1..Len(Keywords) : Contains(Lower(TextOf(message)), <<Keywords[k]>>)

ShouldInvokeSkillLoopMut(message, pb, cs) ==
    \/ ShouldStartSkillInnerLoop(cs, pb.token_budget)
    \/ HasSkillKeyword(message)
    \/ InList("start_skill_loop", cs.pending_requests)

ShouldInvokeSkillLoop(message, pb, cs) ==
    \/ ShouldStartSkillInnerLoop(cs, pb.token_budget)
    \/ HasSkillKeyword(message)
    \/ cs.duplicate_patterns # <<>>
    \/ InList("start_skill_loop", cs.pending_requests)

\* the line should_invoke_skill_loop writes to the log before it returns
\* (the branches in the order of the code; nothing is logged on False)
ShouldInvokeSkillLoopLog(message, pb, cs) ==
    IF ShouldStartSkillInnerLoop(cs, pb.token_budget)
    THEN "Curator requested inner skill loop based on token budget"
    ELSE IF HasSkillKeyword(message)
    THEN "Detected skill keyword in assistant message"
    ELSE IF cs.duplicate_patterns # <<>>
    THEN "Duplicate tool patterns detected; triggering skill loop"
    ELSE IF InList("start_skill_loop", cs.pending_requests)
    THEN "Curator explicitly requested skill loop start"
    ELSE ""

----------------------------------------------------------------------------
(* DeltaPlaybook *)

DefaultTokenBudget == 2000

\* DeltaPlaybook(): the playbook load() returns for a path that does not exist
FreshPlaybook(now) ==
    [items |-> <<>>, version |-> 1, updated_at |-> now,
     token_budget |-> DefaultTokenBudget]

\* str(n) for n >= 0, one token per decimal digit
DigitChars == <<"0", "1", "2", "3", "4", "5", "6", "7", "8", "9">>

RECURSIVE Digits(_)
Digits(n) ==
    IF n < 10 THEN <<DigitChars[n + 1]>>
    ELSE Digits(n \div 10) \o <<DigitChars[(n % 10) + 1]>>

\* f"skill_{self.version}_{index}"
SkillName(version, index) ==
    <<"skill", "_">> \o Digits(version) \o <<"_">> \o Digits(index)

NoName == <<>>

\* item.get(key) for the keys the merge reads
ItemName(item) == IF "name" \in DOMAIN item THEN item.name ELSE NoName

ExistingSkillNames(items) ==
    {ItemName(items[i]) : i \in {j \in 1..Len(items) : items[j].type = "skill"}}

ClarificationItem(clarification, timestamp) ==
    [type |-> "clarification", content |-> clarification,
     accepted |-> TRUE, timestamp |-> timestamp]

ReferenceItem(reference, timestamp) ==
    [type |-> "reference", url |-> reference.text,
     accepted |-> TRUE, timestamp |-> timestamp]

SkillItem(skill_name, runbook, summary, timestamp) ==
    [type |-> "skill", name |-> skill_name, code |-> runbook,
     accepted |-> TRUE, timestamp |-> timestamp,
     metadata |-> [tool_calls |-> Len(summary.tool_calls),
                   duration |-> summary.duration_seconds]]

ConstraintItem(note, timestamp) ==
    [type |-> "constraint", description |-> note,
     accepted |-> TRUE, timestamp |-> timestamp]

\* [item for item in self.items if item.get("type") == item_type]
RECURSIVE ItemsOfType(_, _, _)
ItemsOfType(items, item_type, i) ==
    IF i > Len(items) THEN <<>>
    ELSE (IF items[i].type = item_type THEN <<items[i]>> ELSE <<>>)
         \o ItemsOfType(items, item_type, i + 1)

\* [item["name"] for item in self.items if item.get("type") == "skill" and "name" in item]
RECURSIVE SkillNamesOf(_, _)
SkillNamesOf(items, i) ==
    IF i > Len(items) THEN <<>>
    ELSE (IF items[i].type = "skill" /\ "name" \in DOMAIN items[i]
          THEN <<items[i].name>> ELSE <<>>)
         \o SkillNamesOf(items, i + 1)

ToContextDictMut(pb) ==
    [existing_skills |-> SkillNamesOf(pb.items, 1),
     constraints |-> ItemsOfType(pb.items, "constraint", 1),
     references |-> ItemsOfType(pb.items, "clarification", 1),
     version |-> pb.version]

\* to_context_dict
ToContextDict(pb) ==
    [existing_skills |-> SkillNamesOf(pb.items, 1),
     constraints |-> ItemsOfType(pb.items, "constraint", 1),
     references |-> ItemsOfType(pb.items, "reference", 1),
     version |-> pb.version]

\* no SkillLoop has been given a context yet
NoContext == [existing_skills |-> <<>>, constraints |-> <<>>, references |-> <<>>,
              version |-> 0]

IsUrlMut(reference) ==
    Contains(reference.text, <<"http://">>) \/ Contains(reference.text, <<"https://">>)

\* isinstance(reference, str) and reference.startswith(("http://", "https://"))
IsUrl(reference) ==
    /\ reference.is_str
    /\ Len(reference.text) >= 1
    /\ reference.text[1] \in {"http://", "https://"}

ConstraintKeywords == <<"limit", "avoid", "prevent">>

IsConstraintNote(note) ==
    \E k \in 1..Len(ConstraintKeywords) : Contains(Lower(note), <<ConstraintKeywords[k]>>)

MergeClarifications(summary, timestamp) ==
    [i \in 1..Len(summary.clarifications) |->
        ClarificationItem(summary.clarifications[i], timestamp)]

RECURSIVE MergeReferences(_, _, _)
MergeReferences(summary, timestamp, i) ==
    IF i > Len(summary.references) THEN <<>>
    ELSE (IF IsUrl(summary.references[i])
          THEN <<ReferenceItem(summary.references[i], timestamp)>> ELSE <<>>)
         \o MergeReferences(summary, timestamp, i + 1)

RECURSIVE MergeSkillsMut(_, _, _, _, _)
MergeSkillsMut(existing_skill_names, version, summary, timestamp, index) ==
    IF index >= Len(summary.runbook_snippets) THEN <<>>
    ELSE LET skill_name == SkillName(version, index)
         IN  <<SkillItem(skill_name, summary.runbook_snippets[index + 1],
                         summary, timestamp)>>
             \o MergeSkillsMut(existing_skill_names \cup {skill_name}, version,
                               summary, timestamp, index + 1)

RECURSIVE MergeSkillsBreakMut(_, _, _, _, _)
MergeSkillsBreakMut(existing_skill_names, version, summary, timestamp, index) ==
    IF index >= Len(summary.runbook_snippets) THEN <<>>
    ELSE LET skill_name == SkillName(version, index)
         IN  IF skill_name \in existing_skill_names
             THEN <<>>
             ELSE <<SkillItem(skill_name, summary.runbook_snippets[index + 1],
                              summary, timestamp)>>
                  \o MergeSkillsBreakMut(existing_skill_names \cup {skill_name}, version,
                                         summary, timestamp, index + 1)

\* the loop over enumerate(summary.runbook_snippets), from position index on
RECURSIVE MergeSkills(_, _, _, _, _)
MergeSkills(existing_skill_names, version, summary, timestamp, index) ==
    IF index >= Len(summary.runbook_snippets) THEN <<>>
    ELSE LET skill_name == SkillName(version, index)
         IN  IF skill_name \in existing_skill_names
             THEN MergeSkills(existing_skill_names, version, summary, timestamp, index + 1)
             ELSE <<SkillItem(skill_name, summary.runbook_snippets[index + 1],
                              summary, timestamp)>>
                  \o MergeSkills(existing_skill_names \cup {skill_name}, version,
                                 summary, timestamp, index + 1)

RECURSIVE MergeConstraints(_, _, _)
MergeConstraints(summary, timestamp, i) ==
    IF i > Len(summary.reflection_notes) THEN <<>>
    ELSE (IF IsConstraintNote(summary.reflection_notes[i])
          THEN <<ConstraintItem(summary.reflection_notes[i], timestamp)>> ELSE <<>>)
         \o MergeConstraints(summary, timestamp, i + 1)

AcceptedItemsMut(pb, summary, timestamp) ==
    MergeClarifications(summary, timestamp)
    \o MergeSkills(ExistingSkillNames(pb.items), pb.version, summary, timestamp, 0)
    \o MergeReferences(summary, timestamp, 1)
    \o MergeConstraints(summary, timestamp, 1)

\* the list "accepted" built by validate_and_merge
AcceptedItems(pb, summary, timestamp) ==
    MergeClarifications(summary, timestamp)
    \o MergeReferences(summary, timestamp, 1)
    \o MergeSkills(ExistingSkillNames(pb.items), pb.version, summary, timestamp, 0)
    \o MergeConstraints(summary, timestamp, 1)

ValidateAndMergeSuccessMut(pb, summary, timestamp) ==
    LET accepted == AcceptedItems(pb, summary, timestamp)
    IN  [playbook |-> [pb EXCEPT !.items = @ \o accepted,
                                 !.version = IF summary.success THEN @ + 1 ELSE @],
         accepted |-> accepted]

ValidateAndMergeAllMut(pb, summary, timestamp) ==
    LET accepted == AcceptedItems(pb, summary, timestamp)
    IN  [playbook |-> [pb EXCEPT !.items = @ \o accepted, !.version = @ + 1],
         accepted |-> pb.items \o accepted]

ValidateAndMergeMut(pb, summary, timestamp) ==
    LET accepted == AcceptedItems(pb, summary, timestamp)
    IN  [playbook |-> [pb EXCEPT !.items = @ \o accepted,
                                 !.version = IF accepted = <<>> THEN @ ELSE @ + 1],
         accepted |-> accepted]

\* validate_and_merge: the playbook after the call and the list it returns
ValidateAndMerge(pb, summary, timestamp) ==
    LET accepted == AcceptedItems(pb, summary, timestamp)
    IN  [playbook |-> [pb EXCEPT !.items = @ \o accepted, !.version = @ + 1],
         accepted |-> accepted]

----------------------------------------------------------------------------
(* TaskTrajectory *)

NewTrajectory(task_id) == [task_id |-> task_id, messages |-> <<>>, delta_updates |-> <<>>]

TrajectoryAppendMut(traj, message) == [traj EXCEPT !.messages = <<message>> \o @]

\* append
TrajectoryAppend(traj, message) == [traj EXCEPT !.messages = Append(@, message)]

AddDeltaUpdatePrependMut(traj, deltas) == [traj EXCEPT !.delta_updates = deltas \o @]

AddDeltaUpdateReplaceMut(traj, deltas) == [traj EXCEPT !.delta_updates = deltas]

\* add_delta_update
AddDeltaUpdate(traj, deltas) == [traj EXCEPT !.delta_updates = @ \o deltas]

IsSkillTagged(message) == message.metadata.loop_type = "skill"

RECURSIVE SkillSessionsFromMut(_, _, _, _)
SkillSessionsFromMut(messages, i, current, sessions_so_far) ==
    IF i > Len(messages) THEN sessions_so_far
    ELSE IF IsSkillTagged(messages[i])
         THEN SkillSessionsFromMut(messages, i + 1, Append(current, messages[i]), sessions_so_far)
         ELSE IF current # <<>>
              THEN SkillSessionsFromMut(messages, i + 1, <<>>, Append(sessions_so_far, current))
              ELSE SkillSessionsFromMut(messages, i + 1, current, sessions_so_far)

\* the loop of get_skill_sessions from message i on, and its final "if current"
RECURSIVE SkillSessionsFrom(_, _, _, _)
SkillSessionsFrom(messages, i, current, sessions_so_far) ==
    IF i > Len(messages)
    THEN IF current # <<>> THEN Append(sessions_so_far, current) ELSE sessions_so_far
    ELSE IF IsSkillTagged(messages[i])
         THEN SkillSessionsFrom(messages, i + 1, Append(current, messages[i]), sessions_so_far)
         ELSE IF current # <<>>
              THEN SkillSessionsFrom(messages, i + 1, <<>>, Append(sessions_so_far, current))
              ELSE SkillSessionsFrom(messages, i + 1, current, sessions_so_far)

GetSkillSessions(traj) == SkillSessionsFrom(traj.messages, 1, <<>>, <<>>)

RECURSIVE SelectMessages(_, _, _)
SelectMessages(messages, loop_type, i) ==
    IF i > Len(messages) THEN <<>>
    ELSE (IF messages[i].metadata.loop_type = loop_type THEN <<messages[i]>> ELSE <<>>)
         \o SelectMessages(messages, loop_type, i + 1)

GetTaskMessages(traj) == SelectMessages(traj.messages, "task", 1)

----------------------------------------------------------------------------
(* SkillLoop and summarize_skill_session (ace_skill_utils.py) *)

TagIfAbsentSkillMut(message, loop_type, trajectory_id) ==
    [message EXCEPT
        !.metadata.loop_type = IF @ = NoTag THEN "skill" ELSE @,
        !.metadata.trajectory_id = IF @ = NoId THEN trajectory_id ELSE @]

TagIfAbsentMut(message, loop_type, trajectory_id) ==
    [message EXCEPT !.metadata.loop_type = loop_type,
                    !.metadata.trajectory_id = trajectory_id]

\* metadata.setdefault("loop_type", ...); metadata.setdefault("trajectory_id", ...)
\* (a message without a metadata attribute first gets an empty dict)
TagIfAbsent(message, loop_type, trajectory_id) ==
    [message EXCEPT
        !.metadata.loop_type = IF @ = NoTag THEN loop_type ELSE @,
        !.metadata.trajectory_id = IF @ = NoId THEN trajectory_id ELSE @]

\* f"{trajectory.task_id}:skill:{uuid.uuid4()}", the k-th identifier drawn
SkillTrajectoryId(task_id, k) == task_id \o <<":skill:", "uuid-">> \o Digits(k)

\* [segment.strip() for segment in content.split("?") if segment.strip()]
RECURSIVE SplitQuestions(_, _, _)
SplitQuestions(text, i, current) ==
    IF i > Len(text) THEN (IF current # <<>> THEN <<current>> ELSE <<>>)
    ELSE IF text[i] = "?"
         THEN (IF current # <<>> THEN <<current>> ELSE <<>>)
              \o SplitQuestions(text, i + 1, <<>>)
         ELSE SplitQuestions(text, i + 1, Append(current, text[i]))

ClarificationsOf(message) ==
    IF message.kind = "assistant" /\ Contains(TextOf(message), <<"?">>)
    THEN SplitQuestions(TextOf(message), 1, <<>>)
    ELSE <<>>

ToolCallsOf(message) ==
    IF message.kind = "tool_use" THEN <<[tool_name |-> message.name]>> ELSE <<>>

RunbookSnippetsOf(message) ==
    IF message.kind = "tool_use" /\ message.name = "Write" /\ message.input.has_content
    THEN <<message.input.content>> ELSE <<>>

ReflectionNotesOf(message) ==
    IF message.metadata.hook_decision # <<>>
    THEN <<message.metadata.hook_decision>> ELSE <<>>

\* what one message adds to a list of the summary
PartOf(list, message) ==
    CASE list = "clarifications" -> ClarificationsOf(message)
      [] list = "tool_calls" -> ToolCallsOf(message)
      [] list = "runbook_snippets" -> RunbookSnippetsOf(message)
      [] list = "reflection_notes" -> ReflectionNotesOf(message)

\* the loop "for msg in messages", for one list of the summary
RECURSIVE Collect(_, _, _)
Collect(list, messages, i) ==
    IF i > Len(messages) THEN <<>>
    ELSE PartOf(list, messages[i]) \o Collect(list, messages, i + 1)

\* (end_time - start_time).total_seconds(), 0.0 without two set times
DurationOf(messages) ==
    LET stamped == {j \in 1..Len(messages) : messages[j].timestamp # NoTime}
    IN  IF stamped = {} THEN 0
        ELSE LET first == CHOOSE j \in stamped : \A k \in stamped : j <= k
                 last == CHOOSE j \in stamped : \A k \in stamped : k <= j
             IN  messages[last].timestamp - messages[first].timestamp

SummarizeSkillSession(messages) ==
    [clarifications |-> Collect("clarifications", messages, 1),
     references |-> <<>>,
     tool_calls |-> Collect("tool_calls", messages, 1),
     runbook_snippets |-> Collect("runbook_snippets", messages, 1),
     reflection_notes |-> Collect("reflection_notes", messages, 1),
     duration_seconds |-> DurationOf(messages),
     success |-> \E i \in 1..Len(messages) : messages[i].kind = "result"]

\* SkillSessionSummary.brief and the context update run_task sends
ContextUpdate(summary) ==
    [tools |-> Len(summary.tool_calls), snippets |-> Len(summary.runbook_snippets),
     status |-> IF summary.success THEN "success" ELSE "incomplete"]

----------------------------------------------------------------------------
(* Persistence.  json.dump writes the payload as text and json.load parses  *)
(* it: a number becomes its decimal digits, a bool true or false, a string  *)
(* a JSON string, a dict an object with the members in insertion order.     *)
(* The file is the sequence of members written so far; it is a complete     *)
(* document once the closing brace is written.                              *)

\* json's text of an int
JsonInt(n) == IF n < 0 THEN <<"-">> \o Digits(0 - n) ELSE Digits(n)

DigitValue(char) == CHOOSE d \in 0..9 : DigitChars[d + 1] = char

\* int(text) for a text of decimal digits, read up to position i
RECURSIVE ParseDigits(_, _)
ParseDigits(text, i) ==
    IF i = 0 THEN 0 ELSE 10 * ParseDigits(text, i - 1) + DigitValue(text[i])

ParseInt(text) ==
    IF Head(text) = "-" THEN 0 - ParseDigits(Tail(text), Len(text) - 1)
    ELSE ParseDigits(text, Len(text))

\* the keys whose values are ints, and the key whose value is a bool
IntKeys == {"version", "token_budget", "tool_calls", "duration"}

\* json.dump of the value stored under key
RECURSIVE JsonEncode(_, _)
JsonEncode(key, value) ==
    IF key \in IntKeys THEN [json |-> "number", text |-> JsonInt(value)]
    ELSE IF key = "accepted"
    THEN [json |-> "bool", text |-> IF value THEN <<"true">> ELSE <<"false">>]
    ELSE IF key = "metadata"
    THEN [json |-> "object",
          text |-> [k \in DOMAIN value |-> JsonEncode(k, value[k])]]
    ELSE IF key = "items"
    THEN [json |-> "array",
          text |-> [i \in 1..Len(value) |->
                       [k \in DOMAIN value[i] |-> JsonEncode(k, value[i][k])]]]
    ELSE [json |-> "string", text |-> value]

\* json.load of one value
RECURSIVE JsonDecode(_)
JsonDecode(j) ==
    IF j.json = "number" THEN ParseInt(j.text)
    ELSE IF j.json = "bool" THEN j.text = <<"true">>
    ELSE IF j.json = "object" THEN [k \in DOMAIN j.text |-> JsonDecode(j.text[k])]
    ELSE IF j.json = "array"
    THEN [i \in 1..Len(j.text) |->
             [k \in DOMAIN j.text[i] |-> JsonDecode(j.text[i][k])]]
    ELSE j.text

Member(key, value) == [key |-> key, value |-> JsonEncode(key, value)]

\* the payload of save, as json.dump writes it
JsonPayload(pb) ==
    << Member("items", pb.items), Member("version", pb.version),
       Member("updated_at", pb.updated_at), Member("token_budget", pb.token_budget) >>

\* no file at the path
NoDocument == [exists |-> FALSE, members |-> <<>>, complete |-> FALSE]

\* the file after path.open("w"): it exists and is empty
TruncatedDocument == [exists |-> TRUE, members |-> <<>>, complete |-> FALSE]

\* the file a completed save of pb leaves
DocumentOf(pb) == [exists |-> TRUE, members |-> JsonPayload(pb), complete |-> TRUE]

\* data.get(key, default) on the parsed document
RECURSIVE DataGet(_, _, _, _)
DataGet(members, key, default, i) ==
    IF i > Len(members) THEN default
    ELSE IF members[i].key = key THEN JsonDecode(members[i].value)
    ELSE DataGet(members, key, default, i + 1)

\* no load yet
NotLoaded == [status |-> "None", playbook |-> FreshPlaybook(0)]

LoadMut(doc, now) ==
    IF ~doc.exists THEN [status |-> "ok", playbook |-> FreshPlaybook(now)]
    ELSE IF ~doc.complete THEN [status |-> "JSONDecodeError", playbook |-> FreshPlaybook(0)]
    ELSE [status |-> "ok",
          playbook |-> [items |-> DataGet(doc.members, "items", <<>>, 1),
                        version |-> DataGet(doc.members, "version", 1, 1),
                        updated_at |-> now,
                        token_budget |-> DataGet(doc.members, "token_budget",
                                                 DefaultTokenBudget, 1)]]

\* DeltaPlaybook.load: the playbook it returns, or the error json.load raises
\* on a file that is empty or ends before the closing brace
Load(doc, now) ==
    IF ~doc.exists THEN [status |-> "ok", playbook |-> FreshPlaybook(now)]
    ELSE IF ~doc.complete THEN [status |-> "JSONDecodeError", playbook |-> FreshPlaybook(0)]
    ELSE [status |-> "ok",
          playbook |-> [items |-> DataGet(doc.members, "items", <<>>, 1),
                        version |-> DataGet(doc.members, "version", 1, 1),
                        updated_at |-> DataGet(doc.members, "updated_at", now, 1),
                        token_budget |-> DataGet(doc.members, "token_budget",
                                                 DefaultTokenBudget, 1)]]

\* the caller has loaded, saved and exported nothing
NoIo == [loads |-> 0, saves |-> 0, exported |-> <<>>]

PersistIdle ==
    /\ document = NoDocument
    /\ payload = <<>>
    /\ loaded = NotLoaded
    /\ main_io = NoIo

----------------------------------------------------------------------------
(* TranscriptWriter.  A thread executes one call at a time; a step is the   *)
(* code between two points where another thread may run.  A line reaches    *)
(* the file in two pieces (write, then the end of the line with flush), so  *)
(* that two writers without mutual exclusion could interleave.              *)

Threads == {1, 2}

IdleFrame == [op |-> "idle", step |-> "idle", record |-> 0, nested |-> FALSE]

\* TranscriptWriter(output_path)
NewWriter == [started |-> FALSE, file_handle |-> 0, opened |-> 0]

NoCalls == [n |-> 0, returned |-> {}]

\* TaskExecutionResult
TaskExecutionResult(trajectory_value, playbook_version, delta_count, success, error_message) ==
    [trajectory |-> trajectory_value, playbook_version |-> playbook_version,
     delta_count |-> delta_count, success |-> success, error_message |-> error_message]

\* execute_task has returned nothing
NoResult == TaskExecutionResult(<<>>, 0, 0, FALSE, <<"pending">>)

\* the loggers _setup_logging_interceptor adds the handler to
InterceptedLoggers == {"ace_task", "ace_skill_utils", "claude_agent_sdk"}

\* no execute_task call: handlers are the loggers holding a LoggingInterceptor,
\* transcript_writer says whether the module-level _transcript_writer is set
NoExecution ==
    [task_prompt |-> <<>>, directory_exists |-> FALSE, transcript_path |-> FALSE,
     progress_callback |-> FALSE, handlers |-> {}, transcript_writer |-> FALSE,
     transcript_context |-> FALSE, log_handler |-> FALSE, hooks |-> 0,
     result |-> NoResult, raised |-> "None"]

TranscriptIdle ==
    /\ lock = 0
    /\ writer = NewWriter
    /\ transcript = <<>>
    /\ threads = <<>>
    /\ calls = NoCalls
    /\ executor = NoExecution

LockFreeMut(t) == TRUE

\* threading.Lock.acquire returns only when no thread holds the lock, the
\* calling thread included: the lock is not reentrant
LockFree(t) == lock = 0

\* one piece of a line, written through self.file_handle as it is now
Piece(t, kind, part) ==
    [record |-> threads[t].record, kind |-> kind, part |-> part, thread |-> t,
     handle |-> writer.file_handle]


----------------------------------------------------------------------------
(* Initial values shared by the specifications. *)

TaskId == <<"task-uuid">>               \* str(uuid.uuid4()) of run_task

NoCall == [n |-> 0, summary |-> <<>>, before |-> <<>>, accepted |-> <<>>]

----------------------------------------------------------------------------
(* Hooks.  A hook returns {} or a PreToolUse decision; a path or a command  *)
(* is a sequence of tokens and "pattern in text" is Contains.               *)

\* return {}
EmptyOutput == [permissionDecision |-> "None", permissionDecisionReason |-> <<>>]

Deny(reason) == [permissionDecision |-> "deny", permissionDecisionReason |-> reason]

ForbiddenPaths == << <<"/etc/">>, <<"/sys/">>, <<"~/.ssh/">> >>

DestructiveCommands == << <<"rm", "-rf">>, <<"dd", "if=">>, <<">", "/dev/">> >>

\* "for pattern in patterns: if pattern in text: return ..." from position i:
\* the position of the first pattern found, 0 if the loop ends
RECURSIVE FirstPattern(_, _, _)
FirstPattern(patterns, text, i) ==
    IF i > Len(patterns) THEN 0
    ELSE IF Contains(text, patterns[i]) THEN i
    ELSE FirstPattern(patterns, text, i + 1)

\* tool_input.get(key, "")
GetText(tool_input, key) ==
    IF key \in DOMAIN tool_input THEN tool_input[key] ELSE <<>>

ValidateToolInputMut(input_data) ==
    LET tool_input == input_data.tool_input
        p == FirstPattern(ForbiddenPaths, GetText(tool_input, "path"), 1)
        c == FirstPattern(DestructiveCommands, GetText(tool_input, "command"), 1)
    IN  IF p > 0
        THEN Deny(<<"Path matches forbidden pattern:">> \o ForbiddenPaths[p])
        ELSE IF input_data.tool_name = "Bash" /\ c > 0
        THEN Deny(<<"Command contains destructive pattern:">> \o DestructiveCommands[c])
        ELSE EmptyOutput

\* validate_tool_input of build_skill_reflector_hooks
ValidateToolInput(input_data) ==
    LET tool_input == input_data.tool_input
        p == FirstPattern(ForbiddenPaths, GetText(tool_input, "path"), 1)
        c == FirstPattern(DestructiveCommands, GetText(tool_input, "command"), 1)
    IN  IF input_data.tool_name = "Write" /\ p > 0
        THEN Deny(<<"Path matches forbidden pattern:">> \o ForbiddenPaths[p])
        ELSE IF input_data.tool_name = "Bash" /\ c > 0
        THEN Deny(<<"Command contains destructive pattern:">> \o DestructiveCommands[c])
        ELSE EmptyOutput

\* detect_skill_need and log_task_progress of build_task_hooks: both log and
\* return {}; detect_skill_need appends the tool name to context.tool_history
DetectSkillNeed(input_data) == EmptyOutput

LogTaskProgress(input_data) == EmptyOutput

\* the hooks registered for PreToolUse by build_task_hooks and by
\* build_skill_reflector_hooks
PreToolUseHooks(loop) ==
    IF loop = "task" THEN <<"detect_skill_need", "log_task_progress">>
    ELSE <<"validate_tool_input">>

RunHook(hook, input_data) ==
    CASE hook = "detect_skill_need" -> DetectSkillNeed(input_data)
      [] hook = "log_task_progress" -> LogTaskProgress(input_data)
      [] hook = "validate_tool_input" -> ValidateToolInput(input_data)

\* the decision of a list of hooks from position i: the first deny, else {}
RECURSIVE RunHooks(_, _, _)
RunHooks(hooks, input_data, i) ==
    IF i > Len(hooks) THEN EmptyOutput
    ELSE IF RunHook(hooks[i], input_data).permissionDecision = "deny"
         THEN RunHook(hooks[i], input_data)
         ELSE RunHooks(hooks, input_data, i + 1)

\* no tool action yet
NoAction == [loop |-> "None", input_data |-> [tool_name |-> "None", tool_input |-> << >>]]

GuardIdle ==
    /\ tool_action = NoAction
    /\ hook_output = EmptyOutput
    /\ executed = <<>>
    /\ hook_context = [tool_history |-> <<>>, tool_results |-> <<>>]

\* validate_claude_directory: root is the path, found_agents the names of
\* the *.md files of its agents directory (none if there is no directory)
ExpectedAgents(context) ==
    << <<context, "-generator.md">>, <<context, "-curator.md">>, <<context, "-reflector.md">> >>

ClaudeContext(root) == IF Contains(root, <<"ace-task">>) THEN "task" ELSE "skill"

RECURSIVE MissingAgents(_, _, _)
MissingAgents(expected_agents, found_agents, i) ==
    IF i > Len(expected_agents) THEN <<>>
    ELSE (IF expected_agents[i] \notin found_agents THEN <<expected_agents[i]>> ELSE <<>>)
         \o MissingAgents(expected_agents, found_agents, i + 1)

ValidateClaudeDirectory(root, found_agents) ==
    LET context == ClaudeContext(root)
        missing_agents == MissingAgents(ExpectedAgents(context), found_agents, 1)
    IN  [valid |-> missing_agents = <<>>, agents_found |-> found_agents,
         agents_missing |-> missing_agents, context |-> context]

\* before any validation
NoValidation == [valid |-> TRUE, agents_found |-> {}, agents_missing |-> <<>>, context |-> "None"]

\* no exception
NoError == [type |-> "None", agents_missing |-> <<>>]

CuratorIdle ==
    /\ msg = NoMessage
    /\ tool_history = <<>>
    /\ curator_summary = NoSummary
    /\ escalate = FALSE

RunIdle ==
    /\ outer = <<>>
    /\ inners = <<>>
    /\ skill_messages = <<>>
    /\ queries = <<>>
    /\ active_subloops = 0
    /\ error = NoError
    /\ returned = <<>>
    /\ validation = NoValidation
    /\ playbook_context = NoContext
    /\ GuardIdle
    /\ PersistIdle
    /\ TranscriptIdle

----------------------------------------------------------------------------
(* SpecPolicy: the curator and the escalation policy applied to arbitrary   *)
(* messages, for every token budget and number of accumulated deltas.       *)

PolicyBudgets == {-200, 0, 200, 1800, 2000}

Assistant(words) ==
    Message("outer", 0, 0, "assistant", TRUE, words, "", NoInput, NoTime, NoMetadata)

ToolUse(name) ==
    Message("outer", 0, 0, "tool_use", FALSE, <<>>, name, NoInput, NoTime, NoMetadata)

OtherMessage(kind) ==
    Message("outer", 0, 0, kind, FALSE, <<>>, "", NoInput, NoTime, NoMetadata)

PolicyMessages ==
    { Assistant(<<"hello", "world">>),
      Assistant(<<"please", "Start", "skill", "loop">>),
      Assistant(<<"start", "loop">>),
      Assistant(<<"this", "needs", "reference">>),
      Assistant(<<"a", "Reusable", "one">>),
      Assistant(<<"template">>),
      \* an assistant message whose content is a list of blocks, not a str
      [Assistant(<<"skill">>) EXCEPT !.content_is_str = FALSE],
      ToolUse("Read"), ToolUse("Bash"),
      [OtherMessage("tool_result") EXCEPT !.name = "Read"],
      OtherMessage("result"), OtherMessage("system") }

PlaceholderDelta == ClarificationItem(<<"which", "one">>, 0)

PolicyInit ==
    /\ pc = "curator"
    /\ \E n \in 0..MaxDeltas :
          trajectory = [NewTrajectory(TaskId) EXCEPT
                           !.delta_updates = [i \in 1..n |-> PlaceholderDelta]]
    /\ \E b \in PolicyBudgets : playbook = [FreshPlaybook(0) EXCEPT !.token_budget = b]
    /\ CuratorIdle
    /\ merge_call = NoCall
    /\ sessions = <<>>
    /\ clock = 1
    /\ RunIdle

\* run_task lines 345-347 for one message: the curator evaluates it, the policy decides
Evaluate(m) ==
    LET cs == SummarizeForOuterLoop(tool_history, trajectory, m)
    IN  /\ msg' = m
        /\ curator_summary' = cs
        /\ tool_history' = HistoryAfter(tool_history, m)
        /\ escalate' = ShouldInvokeSkillLoop(m, playbook, cs)

PolicyEvaluate ==
    /\ Len(tool_history) < MaxHistory
    /\ \E m \in PolicyMessages : Evaluate(m)
    /\ pc' = "evaluated"
    /\ UNCHANGED <<trajectory, playbook, merge_call, sessions, clock, runVars, guardVars, persistVars, transcriptVars>>

PolicyNext == PolicyEvaluate

SpecPolicy == PolicyInit /\ [][PolicyNext]_vars

----------------------------------------------------------------------------
(* SpecMerge: sequences of validate_and_merge calls with arbitrary          *)
(* summaries on a fresh or a loaded playbook.                               *)

Str(words) == [is_str |-> TRUE, text |-> words]

\* a reference that is not a str (a number, bytes), shown by its text
NotStr(words) == [is_str |-> FALSE, text |-> words]

\* references of every kind: both schemes, no scheme, a scheme that is not at
\* the start, and values that are not strings
MixedReferences ==
    << Str(<<"https://", "x.test">>), Str(<<"notes.txt">>), NotStr(<<"42">>),
       Str(<<"see", "http://", "y.test">>), Str(<<"http://", "z.test">>),
       NotStr(<<"https://", "x.test">>) >>

Summary(clarifications, references, tool_calls, runbook_snippets, reflection_notes, duration_seconds, success) ==
    [clarifications |-> clarifications, references |-> references,
     tool_calls |-> tool_calls, runbook_snippets |-> runbook_snippets,
     reflection_notes |-> reflection_notes, duration_seconds |-> duration_seconds,
     success |-> success]

MergeSummaries ==
    { Summary(c, r, <<[tool_name |-> "Write"]>>, s, n, 5, TRUE) :
        c \in { <<>>, << <<"which", "db">>, <<"which", "db">> >> },
        r \in { <<>>, MixedReferences },
        s \in { <<>>, << <<"code", "a">> >>, << <<"code", "a">>, <<"code", "b">> >> },
        n \in { <<>>, << <<"Avoid", "globals">>, <<"looks", "fine">> >> } }

\* a playbook document written by an earlier run (or by hand)
LoadedPlaybook ==
    [items |-> << [type |-> "skill", name |-> SkillName(1, 0), code |-> <<"old">>,
                   accepted |-> TRUE, timestamp |-> 0,
                   metadata |-> [tool_calls |-> 0, duration |-> 0]],
                  [type |-> "skill", name |-> SkillName(2, 1), code |-> <<"older">>,
                   accepted |-> TRUE, timestamp |-> 0,
                   metadata |-> [tool_calls |-> 0, duration |-> 0]],
                  ReferenceItem(Str(<<"http://", "docs.test">>), 0) >>,
     version |-> 1, updated_at |-> 0, token_budget |-> 200]

MergePlaybooks == { FreshPlaybook(0), LoadedPlaybook }

MergeInit ==
    /\ pc = "playbook"
    /\ playbook \in MergePlaybooks
    /\ trajectory = NewTrajectory(TaskId)
    /\ CuratorIdle
    /\ merge_call = NoCall
    /\ sessions = <<>>
    /\ clock = 1
    /\ RunIdle

\* playbook.validate_and_merge(summary)
Merge(summary) ==
    LET result == ValidateAndMerge(playbook, summary, clock)
    IN  /\ playbook' = result.playbook
        /\ merge_call' = [n |-> merge_call.n + 1, summary |-> summary,
                          before |-> playbook, accepted |-> result.accepted]
        /\ clock' = clock + 1

MergeCall ==
    /\ merge_call.n < MaxMerges
    /\ \E summary \in MergeSummaries : Merge(summary)
    /\ pc' = "merged"
    /\ UNCHANGED <<trajectory, curatorVars, sessions, runVars, guardVars, persistVars, transcriptVars>>

MergeNext == MergeCall

SpecMerge == MergeInit /\ [][MergeNext]_vars

----------------------------------------------------------------------------
(* SpecSessions: get_skill_sessions on arbitrary tagged trajectories.       *)

SessionTags == {NoTag, "task", "skill"}

Tagged(seq, loop_type) ==
    Message("outer", 0, seq, "assistant", TRUE, <<"hello">>, "", NoInput, NoTime,
            [NoMetadata EXCEPT !.loop_type = loop_type])

SessionsInit ==
    /\ pc = "trajectory"
    /\ trajectory = NewTrajectory(TaskId)
    /\ playbook = FreshPlaybook(0)
    /\ CuratorIdle
    /\ merge_call = NoCall
    /\ sessions = <<>>
    /\ clock = 1
    /\ RunIdle

SessionsAppend ==
    /\ Len(trajectory.messages) < MaxMessages
    /\ \E t \in SessionTags :
          trajectory' = TrajectoryAppend(trajectory, Tagged(Len(trajectory.messages) + 1, t))
    /\ pc' = "trajectory"
    /\ UNCHANGED <<playbook, curatorVars, merge_call, sessions, clock, runVars, guardVars, persistVars, transcriptVars>>

SessionsGet ==
    /\ sessions' = GetSkillSessions(trajectory)
    /\ pc' = "sessions"
    /\ UNCHANGED <<trajectory, playbook, curatorVars, merge_call, clock, runVars, guardVars, persistVars, transcriptVars>>

SessionsNext == SessionsAppend \/ SessionsGet

SpecSessions == SessionsInit /\ [][SessionsNext]_vars

----------------------------------------------------------------------------
(* SpecGuard: tool actions of the outer (task) and the inner (skill)        *)
(* session, each preceded by the PreToolUse hooks its client was built with;*)
(* an action that a hook denies is not executed.                            *)

InputData(tool_name, tool_input) == [tool_name |-> tool_name, tool_input |-> tool_input]

\* the input_data a session may present before a tool action
ToolInputs ==
    { InputData("Write", [path |-> p, content |-> <<"x">>]) :
        p \in { <<"/etc/", "passwd">>, <<"/opt", "/sys/", "x">>, <<"~/.ssh/", "id_rsa">>,
                <<"/etc/", "~/.ssh/", "k">>, <<"/home/", "notes.txt">>, <<"/etc">>, <<>> } }
    \cup
    { InputData("Bash", [command |-> c]) :
        c \in { <<"rm", "-rf", "/tmp/x">>, <<"sudo", "dd", "if=", "/dev/zero">>,
                <<"echo", "x", ">", "/dev/", "null">>, <<"rm", "-rf", "x", ">", "/dev/", "null">>,
                <<"rm", "-r", "-f", "x">>, <<"ls", "-la">> } }
    \cup
    { \* a Write that names its target with another key, or carries a command
      InputData("Write", [file_path |-> <<"/etc/", "passwd">>, content |-> <<"x">>]),
      InputData("Write", [path |-> <<"/home/", "run.sh">>, command |-> <<"rm", "-rf", "/">>]),
      \* a Bash with a path, and other tools with a forbidden path or command
      InputData("Bash", [command |-> <<"ls">>, path |-> <<"/etc/", "passwd">>]),
      InputData("Edit", [path |-> <<"/etc/", "passwd">>]),
      InputData("Read", [path |-> <<"/home/", "notes.txt">>]),
      InputData("None", [command |-> <<"rm", "-rf", "/">>]) }

GuardInit ==
    /\ pc = "guard"
    /\ trajectory = NewTrajectory(TaskId)
    /\ playbook = FreshPlaybook(0)
    /\ CuratorIdle
    /\ merge_call = NoCall
    /\ sessions = <<>>
    /\ clock = 1
    /\ RunIdle

\* a tool action of the session of one loop: its PreToolUse hooks, and, unless
\* one of them denies, the tool and the PostToolUse hooks of that loop
ToolAction(loop, input_data) ==
    LET output == RunHooks(PreToolUseHooks(loop), input_data, 1)
        allowed == output.permissionDecision # "deny"
    IN  /\ tool_action' = [loop |-> loop, input_data |-> input_data]
        /\ hook_output' = output
        /\ executed' = IF allowed THEN Append(executed, tool_action') ELSE executed
        /\ hook_context' =
              [tool_history |->
                  IF loop = "task" /\ input_data.tool_name # "None"
                  THEN Append(hook_context.tool_history, input_data.tool_name)
                  ELSE hook_context.tool_history,
               tool_results |->
                  IF loop = "skill" /\ allowed
                  THEN Append(hook_context.tool_results, input_data.tool_name)
                  ELSE hook_context.tool_results]

TaskToolAction ==
    /\ Len(executed) < MaxToolActions
    /\ \E input_data \in ToolInputs : ToolAction("task", input_data)
    /\ pc' = "guard"
    /\ UNCHANGED <<trajectory, playbook, curatorVars, merge_call, sessions, clock, runVars, persistVars, transcriptVars>>

SkillToolAction ==
    /\ Len(executed) < MaxToolActions
    /\ \E input_data \in ToolInputs : ToolAction("skill", input_data)
    /\ pc' = "guard"
    /\ UNCHANGED <<trajectory, playbook, curatorVars, merge_call, sessions, clock, runVars, persistVars, transcriptVars>>

GuardNext == TaskToolAction \/ SkillToolAction

SpecGuard == GuardInit /\ [][GuardNext]_vars

----------------------------------------------------------------------------
(* SpecPersist: a playbook in memory that is merged into, saved and loaded. *)
(* save is three kinds of step, as the file system sees it: open("w")       *)
(* truncates the file, json.dump writes, closing completes the document.    *)
(* The process may stop between two of them; a later process loads.         *)

PersistSummaries ==
    { Summary(<<>>, <<>>, <<>>, <<>>, <<>>, 0, FALSE),
      Summary(<< <<"which", "db">> >>, MixedReferences, <<[tool_name |-> "Write"]>>,
              << <<"code", "a">> >>, << <<"Avoid", "globals">> >>, 15, TRUE) }

PersistInit ==
    /\ pc = "idle"
    /\ playbook \in MergePlaybooks
    /\ trajectory = NewTrajectory(TaskId)
    /\ CuratorIdle
    /\ merge_call = NoCall
    /\ sessions = <<>>
    /\ clock = 1
    /\ outer = <<>>
    /\ inners = <<>>
    /\ skill_messages = <<>>
    /\ queries = <<>>
    /\ active_subloops = 0
    /\ error = NoError
    /\ returned = <<>>
    /\ validation = NoValidation
    /\ playbook_context = NoContext
    /\ GuardIdle
    /\ document \in {NoDocument, DocumentOf(LoadedPlaybook)}
    /\ payload = <<>>
    /\ loaded = NotLoaded
    /\ main_io = NoIo
    /\ TranscriptIdle

PersistMerge ==
    /\ pc \in {"idle", "roundtrip"}
    /\ merge_call.n < MaxMerges
    /\ \E summary \in PersistSummaries : Merge(summary)
    /\ pc' = "idle"
    /\ UNCHANGED <<trajectory, curatorVars, sessions, runVars, guardVars, persistVars,
                   transcriptVars>>

SaveOpenMut ==
    /\ pc \in {"idle", "roundtrip"}
    /\ main_io.saves < MaxSaves
    /\ payload' = JsonPayload(playbook)
    /\ playbook' = [playbook EXCEPT !.updated_at = clock]
    /\ document' = TruncatedDocument
    /\ main_io' = [main_io EXCEPT !.saves = @ + 1]
    /\ clock' = clock + 1
    /\ pc' = "saving"
    /\ UNCHANGED <<trajectory, curatorVars, merge_call, sessions, runVars, guardVars,
                   loaded, transcriptVars>>

\* save up to path.open("w"): updated_at is set, the payload is built and the
\* file is truncated
SaveOpen ==
    /\ pc \in {"idle", "roundtrip"}
    /\ main_io.saves < MaxSaves
    /\ playbook' = [playbook EXCEPT !.updated_at = clock]
    /\ payload' = JsonPayload(playbook')
    /\ document' = TruncatedDocument
    /\ main_io' = [main_io EXCEPT !.saves = @ + 1]
    /\ clock' = clock + 1
    /\ pc' = "saving"
    /\ UNCHANGED <<trajectory, curatorVars, merge_call, sessions, runVars, guardVars,
                   loaded, transcriptVars>>

\* json.dump writes the next member of the payload
SaveWrite ==
    /\ pc = "saving"
    /\ Len(document.members) < Len(payload)
    /\ document' = [document EXCEPT !.members = Append(@, payload[Len(@) + 1])]
    /\ pc' = "saving"
    /\ UNCHANGED <<trajectory, playbook, curatorVars, merge_call, sessions, clock, runVars,
                   guardVars, payload, loaded, main_io, transcriptVars>>

\* json.dump writes the closing brace and the file is closed
SaveClose ==
    /\ pc = "saving"
    /\ Len(document.members) = Len(payload)
    /\ document' = [document EXCEPT !.complete = TRUE]
    /\ payload' = <<>>
    /\ pc' = "saved"
    /\ UNCHANGED <<trajectory, playbook, curatorVars, merge_call, sessions, clock, runVars,
                   guardVars, loaded, main_io, transcriptVars>>

\* the save does not complete: the process is killed or a write raises OSError
SaveInterrupted ==
    /\ pc = "saving"
    /\ payload' = <<>>
    /\ pc' = "stopped"
    /\ UNCHANGED <<trajectory, playbook, curatorVars, merge_call, sessions, clock, runVars,
                   guardVars, document, loaded, main_io, transcriptVars>>

\* DeltaPlaybook.load(path), by this process after its save or by a later one
PersistLoad ==
    /\ pc \in {"idle", "saved", "stopped"}
    /\ main_io.loads < MaxLoads
    /\ loaded' = Load(document, clock)
    /\ main_io' = [main_io EXCEPT !.loads = @ + 1]
    /\ clock' = clock + 1
    /\ pc' = IF pc = "saved" THEN "roundtrip" ELSE pc
    /\ UNCHANGED <<trajectory, playbook, curatorVars, merge_call, sessions, runVars,
                   guardVars, document, payload, transcriptVars>>

PersistNext ==
    \/ PersistMerge
    \/ SaveOpen
    \/ SaveWrite
    \/ SaveClose
    \/ SaveInterrupted
    \/ PersistLoad

SpecPersist == PersistInit /\ [][PersistNext]_vars

----------------------------------------------------------------------------
(* SpecTranscript: threads calling write_session_header, write_event and    *)
(* close on one TranscriptWriter.                                           *)

TranscriptInit ==
    /\ pc = "transcript"
    /\ playbook = FreshPlaybook(0)
    /\ trajectory = NewTrajectory(TaskId)
    /\ CuratorIdle
    /\ merge_call = NoCall
    /\ sessions = <<>>
    /\ clock = 1
    /\ outer = <<>>
    /\ inners = <<>>
    /\ skill_messages = <<>>
    /\ queries = <<>>
    /\ active_subloops = 0
    /\ error = NoError
    /\ returned = <<>>
    /\ validation = NoValidation
    /\ playbook_context = NoContext
    /\ GuardIdle
    /\ PersistIdle
    /\ lock = 0
    /\ writer = NewWriter
    /\ transcript = <<>>
    /\ threads = [t \in Threads |-> IdleFrame]
    /\ calls = NoCalls
    /\ executor = NoExecution

TranscriptFrame ==
    /\ pc' = "transcript"
    /\ UNCHANGED <<trajectory, playbook, curatorVars, merge_call, sessions, clock, runVars,
                   guardVars, persistVars, executor>>

\* a thread calls write_event(record), write_session_header() or close()
Call(t) ==
    /\ threads[t].op = "idle"
    /\ calls.n < MaxCalls
    /\ \E op \in {"write_event", "write_session_header", "close"} :
          threads' = [threads EXCEPT ![t] =
              [op |-> op, step |-> "acquire", record |-> calls.n + 1, nested |-> FALSE]]
    /\ calls' = [calls EXCEPT !.n = @ + 1]
    /\ UNCHANGED <<lock, writer, transcript>>
    /\ TranscriptFrame

\* "with self.lock:" is entered, by the call or by the write_session_header
\* that write_event calls while it holds the lock
Acquire(t) ==
    /\ threads[t].step = "acquire"
    /\ LockFree(t)
    /\ lock' = t
    /\ threads' = [threads EXCEPT ![t].step =
          IF threads[t].op = "write_event" /\ ~threads[t].nested THEN "check"
          ELSE IF threads[t].op = "close" THEN "close"
          ELSE "open"]
    /\ UNCHANGED <<writer, transcript, calls>>
    /\ TranscriptFrame

\* write_event: "if not self.started: self.write_session_header()"
CheckStarted(t) ==
    /\ threads[t].step = "check"
    /\ threads' = [threads EXCEPT ![t] =
          IF writer.started THEN [@ EXCEPT !.step = "write"]
          ELSE [@ EXCEPT !.step = "acquire", !.nested = TRUE]]
    /\ calls' = IF writer.started
                THEN [calls EXCEPT !.returned = @ \cup {threads[t].record}]
                ELSE calls
    /\ UNCHANGED <<lock, writer, transcript>>
    /\ TranscriptFrame

\* write_session_header: the file is opened if the writer is not started, and
\* the header line is written
OpenAndWriteHeader(t) ==
    /\ threads[t].step = "open"
    /\ writer' = IF writer.started THEN writer
                 ELSE [started |-> TRUE, file_handle |-> writer.opened + 1,
                       opened |-> writer.opened + 1]
    /\ transcript' = Append(transcript,
          [Piece(t, "SessionHeader", 1) EXCEPT !.handle = writer'.file_handle])
    /\ threads' = [threads EXCEPT ![t].step = "header_end"]
    /\ UNCHANGED <<lock, calls>>
    /\ TranscriptFrame

\* the end of the header line and flush; the lock is released; a nested call
\* returns into write_event
HeaderEnd(t) ==
    /\ threads[t].step = "header_end"
    /\ transcript' = Append(transcript, Piece(t, "SessionHeader", 2))
    /\ lock' = 0
    /\ threads' = [threads EXCEPT ![t] =
          IF threads[t].nested THEN [@ EXCEPT !.step = "write", !.nested = FALSE]
          ELSE IdleFrame]
    /\ UNCHANGED <<writer, calls>>
    /\ TranscriptFrame

\* write_event: "if self.file_handle: self.file_handle.write(...)"
WriteEvent(t) ==
    /\ threads[t].step = "write"
    /\ IF writer.file_handle # 0
       THEN /\ transcript' = Append(transcript, Piece(t, "event", 1))
            /\ threads' = [threads EXCEPT ![t].step = "event_end"]
            /\ UNCHANGED lock
       ELSE /\ lock' = 0
            /\ threads' = [threads EXCEPT ![t] = IdleFrame]
            /\ UNCHANGED transcript
    /\ UNCHANGED <<writer, calls>>
    /\ TranscriptFrame

\* the end of the event line and flush; the lock is released
EventEnd(t) ==
    /\ threads[t].step = "event_end"
    /\ transcript' = Append(transcript, Piece(t, "event", 2))
    /\ lock' = 0
    /\ threads' = [threads EXCEPT ![t] = IdleFrame]
    /\ UNCHANGED <<writer, calls>>
    /\ TranscriptFrame

\* close: the handle is closed and forgotten; the lock is released
Close(t) ==
    /\ threads[t].step = "close"
    /\ writer' = IF writer.file_handle # 0
                 THEN [writer EXCEPT !.file_handle = 0, !.started = FALSE]
                 ELSE writer
    /\ lock' = 0
    /\ threads' = [threads EXCEPT ![t] = IdleFrame]
    /\ UNCHANGED <<transcript, calls>>
    /\ TranscriptFrame

TranscriptNext ==
    \E t \in Threads :
        \/ Call(t)
        \/ Acquire(t)
        \/ CheckStarted(t)
        \/ OpenAndWriteHeader(t)
        \/ HeaderEnd(t)
        \/ WriteEvent(t)
        \/ EventEnd(t)
        \/ Close(t)

SpecTranscript == TranscriptInit /\ [][TranscriptNext]_vars

----------------------------------------------------------------------------
(* Spec: one run_task.  The control thread suspends only where the code     *)
(* awaits: the next outer event, the next inner event, the closing of the   *)
(* inner session and client.query.                                          *)

RunPlaybooks == { FreshPlaybook(0), LoadedPlaybook }

TaskPrompt == [tools |-> 0, snippets |-> 0, status |-> "task_prompt"]

\* what the outer session may yield (src, run and seq are set when it does)
OuterMessages ==
    { Assistant(<<"a", "Reusable", "one">>),
      ToolUse("Bash"),
      \* a message the session itself tagged with a loop_type
      [Assistant(<<"noted">>) EXCEPT !.metadata.loop_type = "skill"],
      OtherMessage("result") }

\* what an inner session may yield
InnerMessages ==
    { [ToolUse("Write") EXCEPT !.input = [has_content |-> TRUE, content |-> <<"code", "a">>],
                               !.timestamp = 25],
      \* a message the session tagged itself, carrying a hook annotation
      [Assistant(<<"which", "db", "?">>) EXCEPT
          !.timestamp = 10,
          !.metadata = [loop_type |-> "task", trajectory_id |-> <<"session-own">>,
                        hook_decision |-> <<"Avoid", "globals">>]],
      OtherMessage("result") }

\* receive_response yields nothing after the ResultMessage
StreamOpen(yielded) == IF yielded = <<>> THEN TRUE ELSE Last(yielded).kind # "result"

\* the number of events the inner sessions yielded so far
RECURSIVE InnerYielded(_, _)
InnerYielded(streams, k) ==
    IF k > Len(streams) THEN 0 ELSE Len(streams[k]) + InnerYielded(streams, k + 1)

\* what a session that fails mid-stream raises
SessionError == [type |-> "SessionError", agents_missing |-> <<>>]

\* Path(__file__).parent.parent / "ace-skill"
SkillProjectRoot == <<"repo", "/", "ace-skill">>

\* the *.md names that may be found in the agents directory of the skill
\* project when an escalation fires: all roles, or the reflector missing
AgentDirs ==
    { { <<"skill", "-generator.md">>, <<"skill", "-curator.md">>, <<"skill", "-reflector.md">> },
      { <<"skill", "-generator.md">>, <<"skill", "-curator.md">>, <<"task", "-reflector.md">> } }

RunInit ==
    /\ pc = "start"
    /\ playbook \in RunPlaybooks
    /\ trajectory = NewTrajectory(NoId)
    /\ CuratorIdle
    /\ merge_call = NoCall
    /\ sessions = <<>>
    /\ clock = 1
    /\ RunIdle

\* run_task up to the first await of the outer stream
RunStart ==
    /\ pc = "start"
    /\ trajectory' = NewTrajectory(TaskId)
    /\ queries' = Append(queries, TaskPrompt)
    /\ pc' = "outer"
    /\ UNCHANGED <<playbook, curatorVars, merge_call, sessions, clock, outer, inners,
                   skill_messages, active_subloops, error, returned, validation, playbook_context,
                   guardVars, persistVars, transcriptVars>>

OuterReceiveMut ==
    /\ pc \in {"outer", "inner"}
    /\ Len(outer) < MaxOuter
    /\ StreamOpen(outer)
    /\ \E m \in OuterMessages :
          LET raw == [m EXCEPT !.seq = Len(outer) + 1]
              tagged == TagIfAbsent(raw, "task", trajectory.task_id)
          IN  /\ outer' = Append(outer, raw)
              /\ trajectory' = TrajectoryAppend(trajectory, tagged)
              /\ Evaluate(tagged)
    /\ pc' = IF pc = "inner" THEN pc ELSE IF escalate' THEN "skill_start" ELSE "outer"
    /\ UNCHANGED <<playbook, merge_call, sessions, clock, inners, skill_messages,
                   queries, active_subloops, error, returned, validation, playbook_context,
                   guardVars, persistVars, transcriptVars>>

\* one iteration of "async for msg in client.receive_response()" of run_task,
\* up to the decision to escalate
OuterReceive ==
    /\ pc = "outer"
    /\ Len(outer) < MaxOuter
    /\ StreamOpen(outer)
    /\ \E m \in OuterMessages :
          LET raw == [m EXCEPT !.seq = Len(outer) + 1]
              tagged == TagIfAbsent(raw, "task", trajectory.task_id)
          IN  /\ outer' = Append(outer, raw)
              /\ trajectory' = TrajectoryAppend(trajectory, tagged)
              /\ Evaluate(tagged)
    /\ pc' = IF escalate' THEN "skill_start" ELSE "outer"
    /\ UNCHANGED <<playbook, merge_call, sessions, clock, inners, skill_messages,
                   queries, active_subloops, error, returned, validation, playbook_context,
                   guardVars, persistVars, transcriptVars>>

OuterExhaustedMut ==
    /\ pc = "outer"
    /\ pc' = "outer"
    /\ UNCHANGED <<msg, trajectory, playbook, tool_history, curator_summary, escalate,
                   merge_call, sessions, clock, outer, inners, skill_messages, queries,
                   active_subloops, error, returned, validation, playbook_context,
                   guardVars, persistVars, transcriptVars>>

\* the outer stream is exhausted: run_task returns the trajectory to its caller
OuterExhausted ==
    /\ pc = "outer"
    /\ pc' = "done"
    /\ returned' = <<trajectory>>
    /\ UNCHANGED <<msg, trajectory, playbook, tool_history, curator_summary, escalate,
                   merge_call, sessions, clock, outer, inners, skill_messages, queries,
                   active_subloops, error, validation, playbook_context,
                   guardVars, persistVars, transcriptVars>>

\* the outer session raises from receive_response: nothing in run_task
\* catches it, "async with client" closes the client and the exception
\* leaves run_task, whose local trajectory no caller has received
OuterRaises ==
    /\ pc = "outer"
    /\ StreamOpen(outer)
    /\ error' = SessionError
    /\ pc' = "failed"
    /\ UNCHANGED <<trajectory, playbook, curatorVars, merge_call, sessions, clock,
                   outer, inners, skill_messages, queries, active_subloops, returned, validation, playbook_context,
                   guardVars, persistVars, transcriptVars>>

SkillStartMut ==
    /\ pc = "skill_start"
    /\ \E found_agents \in AgentDirs :
          LET validation_result == ValidateClaudeDirectory(SkillProjectRoot, found_agents)
          IN  /\ validation' = validation_result
              /\ inners' = Append(inners, <<>>)
              /\ skill_messages' = <<>>
              /\ active_subloops' = active_subloops + 1
              /\ pc' = "inner"
              /\ playbook_context' = ToContextDict(playbook)
              /\ UNCHANGED <<error>>
    /\ UNCHANGED <<trajectory, playbook, curatorVars, merge_call, sessions, clock,
                   outer, queries, returned,
                   guardVars, persistVars, transcriptVars>>

\* run_skill_sub_loop up to the first await of the inner stream, or up to
\* the RuntimeError of the directory validation, which leaves run_task
SkillStart ==
    /\ pc = "skill_start"
    /\ \E found_agents \in AgentDirs :
          LET validation_result == ValidateClaudeDirectory(SkillProjectRoot, found_agents)
          IN  /\ validation' = validation_result
              /\ IF ~validation_result.valid
                 THEN /\ error' = [type |-> "RuntimeError",
                                   agents_missing |-> validation_result.agents_missing]
                      /\ pc' = "failed"
                      /\ UNCHANGED <<inners, skill_messages, active_subloops, playbook_context>>
                 ELSE /\ inners' = Append(inners, <<>>)
                      /\ skill_messages' = <<>>
                      /\ active_subloops' = active_subloops + 1
                      /\ playbook_context' = ToContextDict(playbook)
                      /\ pc' = "inner"
                      /\ UNCHANGED <<error>>
    /\ UNCHANGED <<trajectory, playbook, curatorVars, merge_call, sessions, clock,
                   outer, queries, returned,
                   guardVars, persistVars, transcriptVars>>

InnerReceiveMut ==
    /\ pc = "inner"
    /\ InnerYielded(inners, 1) < MaxInner
    /\ StreamOpen(Last(inners))
    /\ \E m \in InnerMessages :
          LET k == Len(inners)
              raw == [m EXCEPT !.src = "inner", !.run = k, !.seq = Len(inners[k]) + 1]
              skill_msg == TagIfAbsent(raw, "skill",
                                       SkillTrajectoryId(trajectory.task_id, k))
          IN  /\ inners' = [inners EXCEPT ![k] = Append(@, raw)]
              /\ skill_messages' = Append(skill_messages, skill_msg)
              /\ trajectory' = IF Len(skill_messages) = 0 THEN trajectory
                               ELSE TrajectoryAppend(trajectory, Last(skill_messages))
    /\ pc' = "inner"
    /\ UNCHANGED <<playbook, curatorVars, merge_call, sessions, clock, outer, queries,
                   active_subloops, error, returned, validation, playbook_context,
                   guardVars, persistVars, transcriptVars>>

InnerReceiveCuratedMut ==
    /\ pc = "inner"
    /\ InnerYielded(inners, 1) < MaxInner
    /\ StreamOpen(Last(inners))
    /\ \E m \in InnerMessages :
          LET k == Len(inners)
              raw == [m EXCEPT !.src = "inner", !.run = k, !.seq = Len(inners[k]) + 1]
              skill_msg == TagIfAbsent(raw, "skill",
                                       SkillTrajectoryId(trajectory.task_id, k))
          IN  /\ inners' = [inners EXCEPT ![k] = Append(@, raw)]
              /\ skill_messages' = Append(skill_messages, skill_msg)
              /\ trajectory' = TrajectoryAppend(trajectory, skill_msg)
              /\ Evaluate(skill_msg)
    /\ pc' = "inner"
    /\ UNCHANGED <<playbook, merge_call, sessions, clock, outer, queries,
                   active_subloops, error, returned, validation, playbook_context,
                   guardVars, persistVars, transcriptVars>>

\* one iteration of run_skill_session's loop and of the loop consuming it
InnerReceive ==
    /\ pc = "inner"
    /\ InnerYielded(inners, 1) < MaxInner
    /\ StreamOpen(Last(inners))
    /\ \E m \in InnerMessages :
          LET k == Len(inners)
              raw == [m EXCEPT !.src = "inner", !.run = k, !.seq = Len(inners[k]) + 1]
              skill_msg == TagIfAbsent(raw, "skill",
                                       SkillTrajectoryId(trajectory.task_id, k))
          IN  /\ inners' = [inners EXCEPT ![k] = Append(@, raw)]
              /\ skill_messages' = Append(skill_messages, skill_msg)
              /\ trajectory' = TrajectoryAppend(trajectory, skill_msg)
    /\ pc' = "inner"
    /\ UNCHANGED <<playbook, curatorVars, merge_call, sessions, clock, outer, queries,
                   active_subloops, error, returned, validation, playbook_context,
                   guardVars, persistVars, transcriptVars>>

\* the inner stream is exhausted: the inner client is closed
InnerExhausted ==
    /\ pc = "inner"
    /\ active_subloops' = active_subloops - 1
    /\ pc' = "merge"
    /\ UNCHANGED <<trajectory, playbook, curatorVars, merge_call, sessions, clock,
                   outer, inners, skill_messages, queries, error, returned, validation, playbook_context,
                   guardVars, persistVars, transcriptVars>>

\* the inner session raises from receive_response: "async with" closes the
\* inner client and the exception leaves run_skill_sub_loop and run_task
InnerRaises ==
    /\ pc = "inner"
    /\ StreamOpen(Last(inners))
    /\ active_subloops' = active_subloops - 1
    /\ error' = SessionError
    /\ pc' = "failed"
    /\ UNCHANGED <<trajectory, playbook, curatorVars, merge_call, sessions, clock,
                   outer, inners, skill_messages, queries, returned, validation, playbook_context,
                   guardVars, persistVars, transcriptVars>>

SkillMergeMut ==
    /\ pc \in {"inner", "merge"}
    /\ Merge(SummarizeSkillSession(skill_messages))
    /\ trajectory' = AddDeltaUpdate(trajectory, merge_call'.accepted)
    /\ pc' = "query"
    /\ UNCHANGED <<curatorVars, sessions, runVars, guardVars, persistVars, transcriptVars>>

\* summarize_skill_session, validate_and_merge and add_delta_update
SkillMerge ==
    /\ pc = "merge"
    /\ Merge(SummarizeSkillSession(skill_messages))
    /\ trajectory' = AddDeltaUpdate(trajectory, merge_call'.accepted)
    /\ pc' = "query"
    /\ UNCHANGED <<curatorVars, sessions, runVars, guardVars, persistVars, transcriptVars>>

SendContextUpdateMut ==
    /\ pc = "query"
    /\ queries' = IF merge_call.summary.runbook_snippets = <<>> THEN queries
                  ELSE Append(queries, ContextUpdate(merge_call.summary))
    /\ pc' = "outer"
    /\ UNCHANGED <<trajectory, playbook, curatorVars, merge_call, sessions, clock,
                   outer, inners, skill_messages, active_subloops, error, returned, validation, playbook_context,
                   guardVars, persistVars, transcriptVars>>

\* await client.query(context_update)
SendContextUpdate ==
    /\ pc = "query"
    /\ queries' = Append(queries, ContextUpdate(merge_call.summary))
    /\ pc' = "outer"
    /\ UNCHANGED <<trajectory, playbook, curatorVars, merge_call, sessions, clock,
                   outer, inners, skill_messages, active_subloops, error, returned, validation, playbook_context,
                   guardVars, persistVars, transcriptVars>>

Next ==
    \/ RunStart
    \/ OuterReceive
    \/ OuterExhausted
    \/ OuterRaises
    \/ SkillStart
    \/ InnerReceive
    \/ InnerExhausted
    \/ InnerRaises
    \/ SkillMerge
    \/ SendContextUpdate

Spec == RunInit /\ [][Next]_vars

\* the scheduler of the event loop keeps running run_task while it can take
\* a step: the sessions yield their next event, end or raise
FairSpec == Spec /\ WF_vars(Next)

----------------------------------------------------------------------------
(* SpecMain: main, or TaskExecutor.execute_task, around one run_task: the   *)
(* playbook is loaded, run_task runs, the trajectory is exported if asked   *)
(* for (main only) and the playbook is saved.                               *)

MainInit ==
    /\ pc = "main"
    /\ playbook = FreshPlaybook(0)
    /\ trajectory = NewTrajectory(NoId)
    /\ CuratorIdle
    /\ merge_call = NoCall
    /\ sessions = <<>>
    /\ clock = 1
    /\ outer = <<>>
    /\ inners = <<>>
    /\ skill_messages = <<>>
    /\ queries = <<>>
    /\ active_subloops = 0
    /\ error = NoError
    /\ returned = <<>>
    /\ validation = NoValidation
    /\ playbook_context = NoContext
    /\ GuardIdle
    /\ document \in {NoDocument, DocumentOf(LoadedPlaybook)}
    /\ payload = <<>>
    /\ loaded = NotLoaded
    /\ main_io = NoIo
    /\ TranscriptIdle

\* playbook = DeltaPlaybook.load(path)
MainLoad ==
    /\ pc = "main"
    /\ loaded' = Load(document, clock)
    /\ playbook' = loaded'.playbook
    /\ main_io' = [main_io EXCEPT !.loads = @ + 1]
    /\ clock' = clock + 1
    /\ pc' = "start"
    /\ UNCHANGED <<trajectory, curatorVars, merge_call, sessions, runVars, guardVars,
                   document, payload, transcriptVars>>

\* export_trajectory(trajectory, path), with the trajectory run_task returned
MainExport ==
    /\ pc = "done"
    /\ main_io' = [main_io EXCEPT !.exported = Append(@, returned[1].messages)]
    /\ pc' = "exported"
    /\ UNCHANGED <<trajectory, playbook, curatorVars, merge_call, sessions, clock, runVars,
                   guardVars, document, payload, loaded, transcriptVars>>

MainSaveAfterFailureMut ==
    /\ pc \in {"done", "exported", "failed"}
    /\ main_io.saves = 0
    /\ playbook' = [playbook EXCEPT !.updated_at = clock]
    /\ document' = DocumentOf(playbook')
    /\ main_io' = [main_io EXCEPT !.saves = @ + 1]
    /\ clock' = clock + 1
    /\ pc' = "saved"
    /\ UNCHANGED <<trajectory, curatorVars, merge_call, sessions, runVars, guardVars,
                   payload, loaded, transcriptVars>>

MainSaveMut ==
    /\ pc \in {"done", "exported", "query"}
    /\ main_io.saves = 0
    /\ playbook' = [playbook EXCEPT !.updated_at = clock]
    /\ document' = DocumentOf(playbook')
    /\ main_io' = [main_io EXCEPT !.saves = @ + 1]
    /\ clock' = clock + 1
    /\ pc' = IF pc = "query" THEN "query" ELSE "saved"
    /\ UNCHANGED <<trajectory, curatorVars, merge_call, sessions, runVars, guardVars,
                   payload, loaded, transcriptVars>>

\* playbook.save(path), after run_task has returned and after the export
MainSave ==
    /\ pc \in {"done", "exported"}
    /\ playbook' = [playbook EXCEPT !.updated_at = clock]
    /\ document' = DocumentOf(playbook')
    /\ main_io' = [main_io EXCEPT !.saves = @ + 1]
    /\ clock' = clock + 1
    /\ pc' = "saved"
    /\ UNCHANGED <<trajectory, curatorVars, merge_call, sessions, runVars, guardVars,
                   payload, loaded, transcriptVars>>

MainNext ==
    \/ MainLoad
    \/ Next
    \/ MainExport
    \/ MainSave

SpecMain == MainInit /\ [][MainNext]_vars

----------------------------------------------------------------------------
(* SpecRuns: TaskExecutor.execute_task called again in the same process.    *)
(* The executor imports the ace-task module once, so every run_task call    *)
(* uses the module-level task_curator.  A run is followed up to its first   *)
(* escalation.                                                              *)

MaxRuns == 2

\* execute_task is called again after the previous call returned its result
\* (success after the save, or failure after run_task raised): the locals of
\* the previous call are gone, the objects of the module remain
ExecuteAgain ==
    /\ pc \in {"saved", "failed"}
    /\ main_io.loads < MaxRuns
    /\ pc' = "main"
    /\ trajectory' = NewTrajectory(NoId)
    /\ msg' = NoMessage
    /\ curator_summary' = NoSummary
    /\ escalate' = FALSE
    /\ outer' = <<>>
    /\ queries' = <<>>
    /\ error' = NoError
    /\ returned' = <<>>
    /\ UNCHANGED <<tool_history, playbook, merge_call, sessions, clock, inners,
                   skill_messages, active_subloops, validation, playbook_context,
                   guardVars, persistVars, transcriptVars>>

RunsNext ==
    \/ MainLoad
    \/ RunStart
    \/ OuterReceive
    \/ OuterExhausted
    \/ OuterRaises
    \/ MainSave
    \/ ExecuteAgain

SpecRuns == MainInit /\ [][RunsNext]_vars

----------------------------------------------------------------------------
(* SpecExecute: one TaskExecutor.execute_task call, for every combination   *)
(* of its arguments.  run_task is the awaited call of step 4: its sub-loops *)
(* merge into the playbook, capture hooks fire while it runs, and it        *)
(* returns the trajectory or raises.  Loading, saving and the set-up of the *)
(* transcript may fail.                                                     *)

MaxHooks == 2

TaskPrompts == { <<"fix", "the", "bug">>, <<>>, <<" ", "\n">> }

\* str.strip() of the prompt is empty
IsBlank(task_prompt) == \A i \in 1..Len(task_prompt) : task_prompt[i] \in {" ", "\t", "\n"}

\* f"Task execution failed: {type(e).__name__}: {str(e)}"
ErrorMessage(type_name) == <<"Task", "execution", "failed:", type_name>>

\* the result of the "except Exception" branch
FailureResult(type_name) == TaskExecutionResult(<<>>, 0, 0, FALSE, ErrorMessage(type_name))

\* the "finally" branch: _cleanup_logging_interceptor if a handler was
\* installed, _cleanup_transcript_capture if the context is not empty
CleanedUp(ex) ==
    [ex EXCEPT !.handlers = IF ex.log_handler THEN @ \ InterceptedLoggers ELSE @,
               !.transcript_writer = IF ex.transcript_context THEN FALSE ELSE @]

\* writer.close() of _cleanup_transcript_capture
ClosedWriter(ex, w) ==
    IF ex.transcript_context /\ w.file_handle # 0
    THEN [w EXCEPT !.file_handle = 0, !.started = FALSE] ELSE w

\* a line written by the single thread of the executor
ExecutorLine(kind, n) ==
    << [record |-> n, kind |-> kind, part |-> 1, thread |-> 0, handle |-> writer.file_handle],
       [record |-> n, kind |-> kind, part |-> 2, thread |-> 0, handle |-> writer.file_handle] >>

ExecuteInit ==
    /\ pc = "execute"
    /\ playbook = FreshPlaybook(0)
    /\ trajectory = NewTrajectory(NoId)
    /\ CuratorIdle
    /\ merge_call = NoCall
    /\ sessions = <<>>
    /\ clock = 1
    /\ outer = <<>>
    /\ inners = <<>>
    /\ skill_messages = <<>>
    /\ queries = <<>>
    /\ active_subloops = 0
    /\ error = NoError
    /\ returned = <<>>
    /\ validation = NoValidation
    /\ playbook_context = NoContext
    /\ GuardIdle
    /\ document \in {NoDocument, DocumentOf(LoadedPlaybook), TruncatedDocument}
    /\ payload = <<>>
    /\ loaded = NotLoaded
    /\ main_io = NoIo
    /\ lock = 0
    /\ writer = NewWriter
    /\ transcript = <<>>
    /\ threads = <<>>
    /\ calls = NoCalls
    /\ \E task_prompt \in TaskPrompts, directory_exists, transcript_path,
          progress_callback \in BOOLEAN :
          executor = [NoExecution EXCEPT !.task_prompt = task_prompt,
                                         !.directory_exists = directory_exists,
                                         !.transcript_path = transcript_path,
                                         !.progress_callback = progress_callback]

ExecuteFrame ==
    UNCHANGED <<curatorVars, sessions, outer, inners, skill_messages, queries,
                active_subloops, validation, playbook_context, guardVars, payload,
                lock, threads, calls>>

ExecuteCheckMut ==
    /\ pc = "execute"
    /\ IF executor.task_prompt = <<>> \/ IsBlank(executor.task_prompt)
       THEN /\ executor' = [executor EXCEPT !.result = FailureResult("ValueError")]
            /\ pc' = "returned"
       ELSE IF ~executor.directory_exists
       THEN /\ executor' = [executor EXCEPT !.raised = "FileNotFoundError"]
            /\ pc' = "raised"
       ELSE /\ pc' = "load"
            /\ UNCHANGED executor
    /\ UNCHANGED <<trajectory, playbook, merge_call, clock, error, returned, document,
                   loaded, main_io, writer, transcript>>
    /\ ExecuteFrame

\* the checks of the arguments, before the try
ExecuteCheck ==
    /\ pc = "execute"
    /\ IF executor.task_prompt = <<>> \/ IsBlank(executor.task_prompt)
       THEN /\ executor' = [executor EXCEPT !.raised = "ValueError"]
            /\ pc' = "raised"
       ELSE IF ~executor.directory_exists
       THEN /\ executor' = [executor EXCEPT !.raised = "FileNotFoundError"]
            /\ pc' = "raised"
       ELSE /\ pc' = "load"
            /\ UNCHANGED executor
    /\ UNCHANGED <<trajectory, playbook, merge_call, clock, error, returned, document,
                   loaded, main_io, writer, transcript>>
    /\ ExecuteFrame

\* step 1, _load_playbook: the file may be unreadable, or not parse
ExecuteLoad ==
    /\ pc = "load"
    /\ \E readable \in BOOLEAN :
          LET result == Load(document, clock)
          IN  IF readable /\ result.status = "ok"
              THEN /\ loaded' = result
                   /\ playbook' = result.playbook
                   /\ main_io' = [main_io EXCEPT !.loads = @ + 1]
                   /\ pc' = "setup"
                   /\ UNCHANGED executor
              ELSE /\ executor' = [executor EXCEPT !.result = FailureResult("Exception")]
                   /\ pc' = "returned"
                   /\ UNCHANGED <<loaded, playbook, main_io>>
    /\ clock' = clock + 1
    /\ UNCHANGED <<trajectory, merge_call, error, returned, document, writer, transcript>>
    /\ ExecuteFrame

\* steps 2 and 3: _setup_transcript_capture if a transcript path was given (it
\* returns {} if the directory or the file cannot be made) and
\* _setup_logging_interceptor if a progress callback was given
ExecuteSetup ==
    /\ pc = "setup"
    /\ \E writable \in BOOLEAN :
          LET capture == executor.transcript_path /\ writable
          IN  /\ writer' = IF capture
                           THEN [started |-> TRUE, file_handle |-> writer.opened + 1,
                                 opened |-> writer.opened + 1]
                           ELSE writer
              /\ transcript' = IF capture
                               THEN [i \in 1..2 |->
                                       [ExecutorLine("SessionHeader", 0)[i] EXCEPT
                                           !.handle = writer'.file_handle]]
                               ELSE transcript
              /\ executor' = [executor EXCEPT
                    !.transcript_writer = capture,
                    !.transcript_context = capture,
                    !.log_handler = executor.progress_callback,
                    !.handlers = IF executor.progress_callback
                                 THEN @ \cup InterceptedLoggers ELSE @]
    /\ pc' = "run"
    /\ UNCHANGED <<trajectory, playbook, merge_call, clock, error, returned, document,
                   loaded, main_io>>
    /\ ExecuteFrame

\* a capture hook (record_tool_start, record_tool_finish, ...) is invoked
RecordToolEvent ==
    /\ pc \in {"run", "returned"}
    /\ executor.hooks < MaxHooks
    /\ executor' = [executor EXCEPT !.hooks = @ + 1]
    /\ transcript' = IF executor.transcript_writer /\ writer.file_handle # 0
                     THEN transcript \o ExecutorLine("event", executor.hooks + 1)
                     ELSE transcript
    /\ UNCHANGED <<pc, trajectory, playbook, merge_call, clock, error, returned, document,
                   loaded, main_io, writer>>
    /\ ExecuteFrame

\* step 4, inside run_task: a sub-loop ended and its summary is merged
ExecuteRunMerge ==
    /\ pc = "run"
    /\ merge_call.n < MaxMerges
    /\ \E summary \in PersistSummaries : Merge(summary)
    /\ trajectory' = AddDeltaUpdate(trajectory, merge_call'.accepted)
    /\ UNCHANGED <<pc, error, returned, document, loaded, main_io, writer, transcript,
                   executor>>
    /\ ExecuteFrame

\* step 4: run_task returns the trajectory
ExecuteRunReturns ==
    /\ pc = "run"
    /\ returned' = <<trajectory>>
    /\ pc' = "save"
    /\ UNCHANGED <<trajectory, playbook, merge_call, clock, error, document, loaded,
                   main_io, writer, transcript, executor>>
    /\ ExecuteFrame

ExecuteRunRaisesMut ==
    /\ pc = "run"
    /\ error' = SessionError
    /\ writer' = writer
    /\ executor' = [executor EXCEPT !.result = FailureResult(error'.type)]
    /\ pc' = "returned"
    /\ UNCHANGED <<trajectory, playbook, merge_call, clock, returned, document, loaded,
                   main_io, transcript>>
    /\ ExecuteFrame

\* step 4: run_task raises; the finally branch cleans up and the except branch
\* builds the result
ExecuteRunRaises ==
    /\ pc = "run"
    /\ error' = SessionError
    /\ writer' = ClosedWriter(executor, writer)
    /\ executor' = [CleanedUp(executor) EXCEPT !.result = FailureResult(error'.type)]
    /\ pc' = "returned"
    /\ UNCHANGED <<trajectory, playbook, merge_call, clock, returned, document, loaded,
                   main_io, transcript>>
    /\ ExecuteFrame

\* steps 5 and 6, _save_playbook and the result: the save may fail before it
\* opens the file or while it writes
ExecuteSave ==
    /\ pc = "save"
    /\ \E outcome \in {"saved", "not opened", "interrupted"} :
          /\ playbook' = IF outcome = "not opened" THEN playbook
                         ELSE [playbook EXCEPT !.updated_at = clock]
          /\ document' = CASE outcome = "saved" -> DocumentOf(playbook')
                           [] outcome = "not opened" -> document
                           [] OTHER -> TruncatedDocument
          /\ main_io' = IF outcome = "saved" THEN [main_io EXCEPT !.saves = @ + 1]
                        ELSE main_io
          /\ executor' = [CleanedUp(executor) EXCEPT !.result =
                IF outcome = "saved"
                THEN TaskExecutionResult(returned, playbook.version,
                                         Len(trajectory.delta_updates), TRUE, <<>>)
                ELSE FailureResult("Exception")]
    /\ writer' = ClosedWriter(executor, writer)
    /\ clock' = clock + 1
    /\ pc' = "returned"
    /\ UNCHANGED <<trajectory, merge_call, error, returned, loaded, transcript>>
    /\ ExecuteFrame

ExecuteNext ==
    \/ ExecuteCheck
    \/ ExecuteLoad
    \/ ExecuteSetup
    \/ RecordToolEvent
    \/ ExecuteRunMerge
    \/ ExecuteRunReturns
    \/ ExecuteRunRaises
    \/ ExecuteSave

SpecExecute == ExecuteInit /\ [][ExecuteNext]_vars

----------------------------------------------------------------------------
(* Claims *)

SkillItemsOf(items) == {i \in 1..Len(items) : items[i].type = "skill"}

\* C1: every validate_and_merge call, whatever the playbook and the summary
\* (the empty summary included), leaves version = version before the call + 1.
C1_VersionPlusOne ==
    merge_call.n > 0 => playbook.version = merge_call.before.version + 1

\* a merge of the summary without clarifications, references, snippets and notes
C1_Witness ==
    /\ merge_call.n > 0
    /\ merge_call.summary.clarifications = <<>>
    /\ merge_call.summary.references = <<>>
    /\ merge_call.summary.runbook_snippets = <<>>
    /\ merge_call.summary.reflection_notes = <<>>
    /\ merge_call.accepted = <<>>
    /\ playbook.items = merge_call.before.items
    /\ playbook.version = merge_call.before.version + 1

\* C2: from a playbook whose skill items have pairwise distinct names, after
\* any sequence of merges no two skill items of playbook.items share a name.
C2_SkillNamesUnique ==
    \A i, j \in SkillItemsOf(playbook.items) :
        i # j => playbook.items[i].name # playbook.items[j].name

\* a merge that dropped a snippet whose name existed and added another one
C2_Witness ==
    /\ merge_call.n > 0
    /\ \E index \in 0..(Len(merge_call.summary.runbook_snippets) - 1) :
          \E i \in SkillItemsOf(merge_call.before.items) :
              merge_call.before.items[i].name = SkillName(merge_call.before.version, index)
    /\ \E k \in 1..Len(merge_call.accepted) : merge_call.accepted[k].type = "skill"
    /\ Cardinality(SkillItemsOf(playbook.items)) >= 3

C7_Explicit ==
    \E i \in 1..Len(curator_summary.pending_requests) :
        curator_summary.pending_requests[i] = "start_skill_loop"

C7_Budget ==
    /\ curator_summary.proposed_updates_token_count >= playbook.token_budget
    /\ curator_summary.proposed_updates_token_count > 0

C7_Keyword ==
    /\ msg.kind = "assistant"
    /\ msg.content_is_str
    /\ \E i \in 1..Len(msg.content) :
          LowerWord(msg.content[i]) \in {"reusable", "pattern", "skill", "generalize", "template"}

C7_Duplicate == Len(curator_summary.duplicate_patterns) >= 1

\* C7: should_invoke_skill_loop returns true exactly when the summary holds the
\* start_skill_loop request, or the token estimate is >= token_budget and > 0,
\* or the message is assistant text with one of the five keywords, or the
\* summary holds a duplicate-tool-pattern flag.
C7_EscalateIff ==
    pc = "evaluated" =>
        (escalate <=> (C7_Explicit \/ C7_Budget \/ C7_Keyword \/ C7_Duplicate))

\* an escalation that only the duplicate-tool-pattern flag causes
C7_Witness ==
    /\ pc = "evaluated"
    /\ escalate
    /\ C7_Duplicate
    /\ ~C7_Explicit /\ ~C7_Budget /\ ~C7_Keyword

\* C8: the token estimate is 200 * (number of accumulated delta updates); with
\* no request, keyword or duplicate the policy escalates exactly when the
\* estimate is >= token_budget and > 0: budget 2000 escalates at 10 updates and
\* not at 9, and zero updates never escalate, even for token_budget <= 0.
C8_TokenBudget ==
    pc = "evaluated" =>
        LET n == Len(trajectory.delta_updates)
            others == C7_Explicit \/ C7_Keyword \/ C7_Duplicate
        IN  /\ curator_summary.proposed_updates_token_count = 200 * n
            /\ ~others => (escalate <=> (200 * n >= playbook.token_budget /\ 200 * n > 0))
            /\ (playbook.token_budget = 2000 /\ n = 10) => escalate
            /\ (playbook.token_budget = 2000 /\ n = 9 /\ ~others) => ~escalate
            /\ (n = 0 /\ ~others) => ~escalate

\* budget 2000 and 10 accumulated updates: the estimate reaches the budget
C8_Witness ==
    /\ pc = "evaluated"
    /\ playbook.token_budget = 2000
    /\ Len(trajectory.delta_updates) = 10
    /\ curator_summary.proposed_updates_token_count = 2000
    /\ ~(C7_Explicit \/ C7_Keyword \/ C7_Duplicate)
    /\ escalate

\* C9: evaluating a tool invocation appends its name to the history and then
\* emits exactly one flag carrying that name iff the history has >= 3 entries
\* whose last 3 are identical; every other evaluation emits no flag and leaves
\* the history alone.
C9_DuplicateFlag ==
    [][pc' = "evaluated" =>
        LET h == tool_history'
            n == Len(tool_history')
        IN  IF msg'.kind = "tool_use"
            THEN /\ h = Append(tool_history, msg'.name)
                 /\ curator_summary'.duplicate_patterns =
                       IF n >= 3 /\ h[n - 2] = h[n] /\ h[n - 1] = h[n]
                       THEN << <<"repeat:", msg'.name>> >> ELSE <<>>
            ELSE /\ h = tool_history
                 /\ curator_summary'.duplicate_patterns = <<>>]_vars

\* the third identical invocation in a row was flagged
C9_Witness ==
    /\ pc = "evaluated"
    /\ msg.kind = "tool_use"
    /\ Len(tool_history) = 3
    /\ tool_history = <<msg.name, msg.name, msg.name>>
    /\ curator_summary.duplicate_patterns = << <<"repeat:", msg.name>> >>

\* the maximal runs of skill-tagged messages of a sequence, as index pairs
C10_Runs(messages) ==
    {r \in (1..Len(messages)) \X (1..Len(messages)) :
        /\ r[1] <= r[2]
        /\ \A k \in r[1]..r[2] : messages[k].metadata.loop_type = "skill"
        /\ r[1] = 1 \/ messages[r[1] - 1].metadata.loop_type # "skill"
        /\ r[2] = Len(messages) \/ messages[r[2] + 1].metadata.loop_type # "skill"}

\* C10: get_skill_sessions returns exactly the maximal contiguous runs of
\* skill-tagged messages, in trajectory order, each with its messages in
\* order, the run open at the end included, none empty.
C10_MaximalRuns ==
    pc = "sessions" =>
        LET runs == C10_Runs(trajectory.messages)
        IN  /\ Len(sessions) = Cardinality(runs)
            /\ \A i \in 1..Len(sessions) :
                  \E r \in runs :
                      /\ Cardinality({q \in runs : q[1] < r[1]}) = i - 1
                      /\ sessions[i] = SubSeq(trajectory.messages, r[1], r[2])

\* [task, skill, skill, task, skill] gives two runs, of lengths 2 and 1
C10_Witness ==
    /\ pc = "sessions"
    /\ Len(trajectory.messages) = 5
    /\ [i \in 1..5 |-> trajectory.messages[i].metadata.loop_type]
           = <<"task", "skill", "skill", "task", "skill">>
    /\ Len(sessions) = 2
    /\ Len(sessions[1]) = 2
    /\ Len(sessions[2]) = 1

\* C3: while an inner session is open no event is consumed from the outer
\* stream, and at most one sub-loop is active at any time.
C3_Exclusive ==
    /\ [](active_subloops \in {0, 1})
    /\ [][(active_subloops > 0 \/ active_subloops' > 0 \/ pc = "skill_start")
              => outer' = outer]_vars

\* the second sub-loop of a run is draining its stream after the first was drained
C3_Witness ==
    /\ pc = "inner"
    /\ active_subloops = 1
    /\ Len(inners) = 2
    /\ Len(inners[1]) >= 1
    /\ Len(inners[2]) >= 1
    /\ Len(outer) = 2

\* the positions of the trajectory holding the events of sub-loop k
C4_Block(k) ==
    {i \in 1..Len(trajectory.messages) :
        trajectory.messages[i].src = "inner" /\ trajectory.messages[i].run = k}

\* C4: every event an inner session yielded is in the outer trajectory before
\* the next one is consumed; the events of one sub-loop form a contiguous block
\* right after the outer message that triggered it and before every outer
\* message received later.
C4_Interleaved ==
    LET messages == trajectory.messages
    IN  /\ \A k \in 1..Len(inners) :
              LET block == C4_Block(k)
              IN  /\ Cardinality(block) = Len(inners[k])
                  /\ block # {} =>
                        \E a \in block :
                            /\ block = a..(a + Len(inners[k]) - 1)
                            /\ \A j \in 1..Len(inners[k]) : messages[a + j - 1].seq = j
                            /\ a > 1
                            /\ messages[a - 1].src = "outer"
                            /\ \A i \in 1..Len(messages) :
                                  messages[i].src = "outer" =>
                                      (i < a <=> messages[i].seq <= messages[a - 1].seq)
        /\ (pc \in {"inner", "merge", "query"} /\ Len(Last(inners)) > 0) =>
              LET a == Len(messages) - Len(Last(inners)) + 1
              IN  /\ C4_Block(Len(inners)) = a..Len(messages)
                  /\ a > 1
                  /\ messages[a - 1] = msg

\* two events of the second sub-loop stand at the end, right after their trigger
C4_Witness ==
    /\ pc = "inner"
    /\ Len(inners) = 2
    /\ Len(inners[1]) = 1
    /\ Len(inners[2]) = 2
    /\ Len(trajectory.messages) = 5
    /\ [i \in 1..5 |-> trajectory.messages[i].src]
           = <<"outer", "inner", "outer", "inner", "inner">>
    /\ trajectory.messages[3] = msg

\* the identity of a message object: the stream and the position it came from
Ident(m) == <<m.src, m.run, m.seq>>

\* C5: trajectory.messages is append-only and in arrival order: every step
\* either leaves it alone, and then no event arrived, or appends exactly the
\* event that arrived in that step behind all earlier messages.
C5_AppendOnly ==
    [][LET old == trajectory.messages
           new == trajectory'.messages
       IN  \/ /\ new = old
              /\ outer' = outer
              /\ InnerYielded(inners', 1) = InnerYielded(inners, 1)
           \/ /\ Len(new) = Len(old) + 1
              /\ SubSeq(new, 1, Len(old)) = old
              /\ \/ /\ Len(outer') = Len(outer) + 1
                    /\ inners' = inners
                    /\ Ident(Last(new)) = Ident(Last(outer'))
                 \/ /\ outer' = outer
                    /\ InnerYielded(inners', 1) = InnerYielded(inners, 1) + 1
                    /\ Ident(Last(new)) = Ident(Last(Last(inners')))]_vars

\* outer and inner events interleaved in the order they arrived
C5_Witness ==
    /\ Len(trajectory.messages) = 4
    /\ [i \in 1..4 |-> Ident(trajectory.messages[i])]
           = << <<"outer", 0, 1>>, <<"inner", 1, 1>>, <<"inner", 1, 2>>, <<"outer", 0, 2>> >>

\* the message as its session yielded it
C6_Raw(m) == IF m.src = "outer" THEN outer[m.seq] ELSE inners[m.run][m.seq]

\* C6: tags are set if absent: a message keeps every tag its session gave it,
\* an untagged message seen by the outer loop gets loop_type task and the
\* task_id, one seen by the sub-loop gets loop_type skill and the sub-loop's
\* trajectory id, and a tag once set never changes.
C6_SetIfAbsent ==
    \A i \in 1..Len(trajectory.messages) :
        LET m == trajectory.messages[i]
            raw == C6_Raw(m)
        IN  /\ m.metadata.loop_type =
                  IF raw.metadata.loop_type # NoTag THEN raw.metadata.loop_type
                  ELSE IF m.src = "outer" THEN "task" ELSE "skill"
            /\ m.metadata.trajectory_id =
                  IF raw.metadata.trajectory_id # NoId THEN raw.metadata.trajectory_id
                  ELSE IF m.src = "outer" THEN TaskId
                  ELSE TaskId \o <<":skill:", "uuid-">> \o Digits(m.run)
            /\ m = [raw EXCEPT !.metadata.loop_type = m.metadata.loop_type,
                               !.metadata.trajectory_id = m.metadata.trajectory_id]

\* a run that saw a session-tagged outer message, a session-tagged inner
\* message and untagged messages of both loops
C6_Witness ==
    /\ pc = "done"
    /\ \E i, j, k, l \in 1..Len(trajectory.messages) :
          LET m == trajectory.messages
          IN  /\ m[i].src = "outer" /\ C6_Raw(m[i]).metadata.loop_type = "skill"
              /\ m[i].metadata.loop_type = "skill"
              /\ m[i].metadata.trajectory_id = TaskId
              /\ m[j].src = "inner" /\ C6_Raw(m[j]).metadata.loop_type = "task"
              /\ m[j].metadata.loop_type = "task"
              /\ m[j].metadata.trajectory_id = <<"session-own">>
              /\ m[k].src = "outer" /\ C6_Raw(m[k]).metadata = NoMetadata
              /\ m[k].metadata.loop_type = "task"
              /\ m[l].src = "inner" /\ C6_Raw(m[l]).metadata = NoMetadata
              /\ m[l].metadata.loop_type = "skill"
              /\ m[l].metadata.trajectory_id # m[k].metadata.trajectory_id

TypeIndices(items, type) == {i \in 1..Len(items) : items[i].type = type}

\* the references of a summary that are strings beginning with a scheme
UrlIndices(references) ==
    {i \in 1..Len(references) :
        /\ references[i].is_str
        /\ references[i].text # <<>>
        /\ Head(references[i].text) = "http://" \/ Head(references[i].text) = "https://"}

\* C11: a reference becomes a playbook item exactly when it is a string that
\* begins with http:// or https://; the accepted reference items are those
\* references, in order. The other references are dropped without an error:
\* the clarifications, snippets and notes of the same summary are merged and
\* the version is incremented.
C11_ReferencesFiltered ==
    merge_call.n > 0 =>
        LET references == merge_call.summary.references
            accepted == merge_call.accepted
            urls == UrlIndices(references)
            items == TypeIndices(accepted, "reference")
        IN  /\ Cardinality(items) = Cardinality(urls)
            /\ \A i \in items :
                  \E r \in urls :
                      /\ accepted[i].url = references[r].text
                      /\ Cardinality({j \in items : j < i}) = Cardinality({q \in urls : q < r})
            /\ Cardinality(TypeIndices(accepted, "clarification"))
                  = Len(merge_call.summary.clarifications)
            /\ Cardinality(TypeIndices(accepted, "skill"))
                  = Cardinality({index \in 0..(Len(merge_call.summary.runbook_snippets) - 1) :
                        SkillName(merge_call.before.version, index)
                            \notin ExistingSkillNames(merge_call.before.items)})
            /\ Cardinality(TypeIndices(accepted, "constraint"))
                  = Cardinality({k \in 1..Len(merge_call.summary.reflection_notes) :
                        IsConstraintNote(merge_call.summary.reflection_notes[k])})
            /\ playbook.version = merge_call.before.version + 1

\* a merge of mixed references that kept two of six and merged the rest
C11_Witness ==
    /\ merge_call.n > 0
    /\ merge_call.summary.references = MixedReferences
    /\ Cardinality(TypeIndices(merge_call.accepted, "reference")) = 2
    /\ TypeIndices(merge_call.accepted, "clarification") # {}
    /\ TypeIndices(merge_call.accepted, "skill") # {}
    /\ TypeIndices(merge_call.accepted, "constraint") # {}
    /\ playbook.version = merge_call.before.version + 1

TypeRank(type) ==
    CASE type = "clarification" -> 1
      [] type = "reference" -> 2
      [] type = "skill" -> 3
      [] type = "constraint" -> 4

\* C12: the items a merge adds come after all existing items, which keep
\* their positions and contents, and are ordered clarifications, references,
\* skills, constraints, each group in the order of the summary.
C12_AppendOrder ==
    merge_call.n > 0 =>
        LET old == merge_call.before.items
            new == playbook.items
        IN  /\ Len(new) >= Len(old)
            /\ \A i \in 1..Len(old) : new[i] = old[i]
            /\ \A i, j \in (Len(old) + 1)..Len(new) :
                  i < j => TypeRank(new[i].type) <= TypeRank(new[j].type)
            /\ \A i \in (Len(old) + 1)..Len(new) : new[i].timestamp = clock - 1
            /\ LET c == TypeIndices(new, "clarification") \ (1..Len(old))
               IN  \A i \in c :
                      new[i].content = merge_call.summary.clarifications[i - Len(old)]

\* a merge into the loaded playbook that added items of all four types
C12_Witness ==
    /\ merge_call.n > 0
    /\ merge_call.before.items # <<>>
    /\ \A type \in {"clarification", "reference", "skill", "constraint"} :
          \E i \in (Len(merge_call.before.items) + 1)..Len(playbook.items) :
              playbook.items[i].type = type

\* C13: the list validate_and_merge returns is the suffix of playbook.items
\* beyond the length before the call: nothing that existed before, nothing
\* that was dropped.
C13_ReturnsSuffix ==
    merge_call.n > 0 =>
        /\ Len(playbook.items) = Len(merge_call.before.items) + Len(merge_call.accepted)
        /\ merge_call.accepted
              = SubSeq(playbook.items, Len(merge_call.before.items) + 1, Len(playbook.items))

\* a merge into a playbook with items that dropped a reference and a snippet
\* and returned a non-empty list
C13_Witness ==
    /\ merge_call.n > 0
    /\ merge_call.before.items # <<>>
    /\ merge_call.accepted # <<>>
    /\ Len(merge_call.accepted)
          < Len(merge_call.summary.clarifications) + Len(merge_call.summary.references)
            + Len(merge_call.summary.runbook_snippets)
            + Len(merge_call.summary.reflection_notes)
    /\ Cardinality(TypeIndices(merge_call.accepted, "skill"))
          < Len(merge_call.summary.runbook_snippets)

\* C14: a second validate_and_merge with the summary of the call before it
\* adds no skill item.
C14_RemergeAddsNoSkill ==
    [][(/\ merge_call.n > 0
        /\ merge_call'.n = merge_call.n + 1
        /\ merge_call'.summary = merge_call.summary)
       => TypeIndices(merge_call'.accepted, "skill") = {}]_vars

\* one step of a run seen from the playbook: a change of the playbook is one
\* merge, taken after the inner stream was drained and before the outer
\* stream is read again
C15_Step ==
    /\ (playbook' # playbook \/ merge_call' # merge_call) =>
          /\ pc = "merge" /\ pc' = "query"
          /\ active_subloops = 0
          /\ outer' = outer /\ inners' = inners
          /\ merge_call'.n = merge_call.n + 1
          /\ merge_call'.before = playbook
          /\ playbook'.version = playbook.version + 1
    /\ pc' = "merge" => (pc = "inner" /\ active_subloops' = 0 /\ inners' = inners)
    /\ pc = "merge" => merge_call'.n = merge_call.n + 1
    /\ pc' \in {"outer", "skill_start", "done"} => merge_call'.n = Len(inners')
    /\ (outer' # outer \/ inners' # inners) => playbook' = playbook

\* C15: within a run the playbook's items and version change only between
\* the draining of the inner stream and the resumption of the outer stream;
\* validate_and_merge is called exactly once per sub-loop whose stream
\* completed, never while a stream is being consumed.
C15_MergeWindow == [][C15_Step]_vars

\* the second merge of a run has happened and added items
C15_Witness ==
    /\ pc = "query"
    /\ merge_call.n = 2
    /\ Len(inners) = 2
    /\ playbook.items # merge_call.before.items
    /\ playbook.version = merge_call.before.version + 1

\* the order of the steps that follow an escalation
C16_Step ==
    /\ pc' = "merge" => pc = "inner"
    /\ merge_call' # merge_call =>
          /\ pc = "merge" /\ pc' = "query"
          /\ merge_call'.summary = SummarizeSkillSession(skill_messages)
          /\ trajectory'.delta_updates = trajectory.delta_updates \o merge_call'.accepted
          /\ trajectory'.messages = trajectory.messages
          /\ queries' = queries
    /\ trajectory'.delta_updates # trajectory.delta_updates => merge_call' # merge_call
    /\ (queries' # queries /\ pc # "start") =>
          /\ pc = "query" /\ pc' = "outer"
          /\ queries' = Append(queries, ContextUpdate(merge_call.summary))
          /\ Len(queries') = 1 + merge_call.n
    /\ pc = "query" => Len(queries') = Len(queries) + 1
    /\ outer' # outer =>
          /\ pc = "outer"
          /\ merge_call.n = Len(inners)
          /\ Len(queries) = 1 + Len(inners)

\* C16: after an escalation the inner stream is drained, then the summary is
\* merged, then the accepted items extend delta_updates, then one context
\* update is sent to the outer session; each happens once, in this order,
\* and the next outer event is consumed only after the context update.
C16_EscalationOrder == [][C16_Step]_vars

\* an outer event consumed after a sub-loop and its context update
C16_Witness ==
    /\ Len(inners) >= 1
    /\ pc = "outer"
    /\ Len(queries) = 1 + Len(inners)
    /\ trajectory.delta_updates # <<>>
    /\ trajectory.messages # <<>>
    /\ Last(trajectory.messages).src = "outer"
    /\ \E i \in 1..Len(trajectory.messages) : trajectory.messages[i].src = "inner"

\* the escalation step when the directory validation reports missing roles
C17_Step ==
    /\ (pc = "skill_start" /\ ~validation'.valid) =>
          /\ pc' = "failed"
          /\ error'.type = "RuntimeError"
          /\ error'.agents_missing = validation'.agents_missing
          /\ error'.agents_missing # <<>>
          /\ inners' = inners
          /\ active_subloops' = 0
          /\ trajectory' = trajectory
          /\ playbook' = playbook
          /\ merge_call' = merge_call
          /\ queries' = queries
          /\ returned' = <<>>
    /\ pc # "failed"

\* C17: if the directory validation reports missing role definitions when an
\* escalation fires, run_task ends with an error before any sub-loop work: no
\* inner session, no skill-tagged message, playbook unchanged, no context
\* update, and nothing is retried after the error.
C17_InvalidSkillContext == [][C17_Step]_vars

\* a run that failed at its second escalation, after one merged sub-loop
C17_Witness ==
    /\ pc = "failed"
    /\ error.type = "RuntimeError"
    /\ error.agents_missing = << <<"skill", "-reflector.md">> >>
    /\ merge_call.n = 1
    /\ Len(inners) = 1
    /\ Len(queries) = 2

\* C18: when the outer or an inner session raises mid-stream the run has
\* failed and its caller holds the trajectory accumulated up to the failure.
C18_TrajectoryAvailable ==
    (pc = "failed" /\ error = SessionError /\ trajectory.messages # <<>>)
        => returned = <<trajectory>>

\* the forbidden path patterns a Write's path contains
MatchedPaths(input_data) ==
    IF input_data.tool_name = "Write" /\ "path" \in DOMAIN input_data.tool_input
    THEN {pattern \in {<<"/etc/">>, <<"/sys/">>, <<"~/.ssh/">>} :
             Contains(input_data.tool_input.path, pattern)}
    ELSE {}

\* the destructive patterns a Bash's command contains
MatchedCommands(input_data) ==
    IF input_data.tool_name = "Bash" /\ "command" \in DOMAIN input_data.tool_input
    THEN {pattern \in {<<"rm", "-rf">>, <<"dd", "if=">>, <<">", "/dev/">>} :
             Contains(input_data.tool_input.command, pattern)}
    ELSE {}

C20_BothLoopsGuarded ==
    (/\ tool_action.loop \in {"task", "skill"}
     /\ MatchedPaths(tool_action.input_data) \cup MatchedCommands(tool_action.input_data) # {})
    => (/\ hook_output.permissionDecision = "deny"
        /\ (executed = <<>> \/ Last(executed) # tool_action))

\* C21: a load that follows a completed save returns a playbook equal, field
\* for field, to the playbook in memory after that save.
C21_RoundTrip ==
    pc = "roundtrip" =>
        /\ loaded.status = "ok"
        /\ loaded.playbook.items = playbook.items
        /\ loaded.playbook.version = playbook.version
        /\ loaded.playbook.token_budget = playbook.token_budget
        /\ loaded.playbook.updated_at = playbook.updated_at

\* a merged playbook with items of all four types was saved over an older
\* document and loaded back
C21_Witness ==
    /\ pc = "roundtrip"
    /\ loaded.status = "ok"
    /\ merge_call.n > 0
    /\ \A type \in {"clarification", "reference", "skill", "constraint"} :
          \E i \in 1..Len(loaded.playbook.items) : loaded.playbook.items[i].type = type
    /\ loaded.playbook.items = playbook.items
    /\ loaded.playbook.version >= 2
    /\ loaded.playbook.updated_at > 0

\* C22: at every moment the file at the playbook path, if there is one, is a
\* complete document: the one saved before or the new one, never an empty or
\* partly written one.
C22_AtomicSave ==
    document.exists => (document.complete /\ Len(document.members) = 4)

\* C23: a write_event that finds the writer not started (never started, or
\* closed) writes the header and then its record and returns: it is never
\* left waiting for a lock that it holds itself.
C23_LazyHeader ==
    \A t \in DOMAIN threads :
        ~(/\ threads[t].op = "write_event"
          /\ threads[t].step = "acquire"
          /\ threads[t].nested
          /\ lock = t)

\* the lines of the transcript: piece 1 of a record is followed at once by
\* piece 2 of the same record from the same thread
C24_WholeLines ==
    \A i \in 1..Len(transcript) :
        /\ transcript[i].part = (IF i % 2 = 1 THEN 1 ELSE 2)
        /\ (i % 2 = 0) =>
              /\ transcript[i].record = transcript[i - 1].record
              /\ transcript[i].kind = transcript[i - 1].kind
              /\ transcript[i].thread = transcript[i - 1].thread
              /\ transcript[i].handle = transcript[i - 1].handle
        /\ (i % 2 = 1 /\ i = Len(transcript)) =>
              threads[transcript[i].thread].step \in {"header_end", "event_end"}

\* C24: with concurrent write_event, write_session_header and close, every
\* record is one whole line with no other record inside it, every record of a
\* write_event that found the writer started and returned is in the file, and
\* nothing is written through a handle that close has discarded.
C24_Serialized ==
    /\ C24_WholeLines
    /\ \A r \in calls.returned :
          (\A t \in DOMAIN threads : threads[t].record # r) =>
              \E i \in 1..Len(transcript) :
                  /\ transcript[i].record = r
                  /\ transcript[i].kind = "event"
                  /\ transcript[i].part = 2
    /\ \A i \in 1..Len(transcript) :
          /\ transcript[i].handle # 0
          /\ transcript[i].handle <= writer.opened
    /\ (writer.started <=> writer.file_handle # 0)

\* both threads have written whole lines, an event was written by a thread
\* other than the one that wrote the header, and the writer was closed after
C24_Witness ==
    /\ Len(transcript) = 6
    /\ transcript[1].kind = "SessionHeader"
    /\ \E i, j \in 1..Len(transcript) :
          /\ transcript[i].kind = "event" /\ transcript[j].kind = "event"
          /\ transcript[i].thread # transcript[j].thread
    /\ Cardinality(calls.returned) = 2
    /\ writer.file_handle = 0
    /\ \A t \in DOMAIN threads : threads[t].op = "idle"

\* the events the streams can still yield and the steps run_task has left
\* before it reads the outer stream again
C25_Variant ==
    6 * (MaxOuter - Len(outer)) + (MaxInner - InnerYielded(inners, 1))
    + (CASE pc = "skill_start" -> 5
         [] pc = "inner" -> 4
         [] pc = "merge" -> 3
         [] pc \in {"query", "start"} -> 2
         [] pc = "outer" -> 1
         [] OTHER -> 0)

\* between the sub-loop and the context update run_task awaits nothing: it is
\* in validate_and_merge, which returns the playbook with the next version
C25_MergeReturns ==
    ValidateAndMerge(playbook, SummarizeSkillSession(skill_messages), clock).playbook.version
        = playbook.version + 1

\* C25: with finite streams run_task returns or raises.  Every step lowers a
\* natural number and, until the run has returned or raised, the step that
\* leaves its current position can be taken (the stream may end, the call may
\* return), so a run that the event loop keeps scheduling ends; an outer message starts
\* at most one sub-loop, the run returns only when the outer stream is
\* exhausted and stops early only with an error.
C25_Terminates ==
    /\ [][C25_Variant' < C25_Variant]_vars
    /\ [](C25_Variant >= 0)
    /\ [](CASE pc = "start" -> ENABLED <<RunStart>>_vars
            [] pc = "outer" -> ENABLED <<OuterExhausted>>_vars
            [] pc = "skill_start" -> ENABLED <<SkillStart>>_vars
            [] pc = "inner" -> ENABLED <<InnerExhausted>>_vars
            [] pc = "merge" -> C25_MergeReturns
            [] pc = "query" -> ENABLED <<SendContextUpdate>>_vars
            [] OTHER -> pc \in {"done", "failed"})
    /\ [](Len(inners) <= Len(outer))
    /\ [](pc = "done" => (returned = <<trajectory>> /\ error = NoError /\ active_subloops = 0))
    /\ [](pc = "failed" => (returned = <<>> /\ error # NoError))

\* a run that has returned after two sub-loops
C25_Witness ==
    /\ pc = "done"
    /\ Len(inners) = 2
    /\ Len(outer) >= 2
    /\ returned = <<trajectory>>

\* the position of the caller decides what it has loaded, saved and exported
C26_Position ==
    /\ pc = "main" => (main_io = NoIo /\ outer = <<>>)
    /\ pc \in {"start", "outer", "skill_start", "inner", "merge", "query", "failed"} =>
          /\ main_io = [loads |-> 1, saves |-> 0, exported |-> <<>>]
          /\ returned = <<>>
    /\ pc \in {"done", "exported", "saved"} =>
          /\ main_io.loads = 1
          /\ returned = <<trajectory>>
          /\ active_subloops = 0
    /\ pc = "done" => (main_io.saves = 0 /\ main_io.exported = <<>>)
    /\ pc = "exported" => (main_io.saves = 0 /\ main_io.exported = <<trajectory.messages>>)
    /\ pc = "saved" =>
          /\ main_io.saves = 1
          /\ Len(main_io.exported) <= 1
          /\ document = DocumentOf(playbook)

\* C26: in one run the playbook is loaded once before the first outer event
\* and, when run_task has returned, saved once; it is not saved while a
\* stream is being consumed and the trajectory is exported only after
\* run_task has returned.
C26_LoadSaveOnce ==
    /\ C26_Position
    /\ outer # <<>> => main_io.loads = 1

\* a run with a merged sub-loop was exported and saved over an older document
C26_Witness ==
    /\ pc = "saved"
    /\ merge_call.n >= 1
    /\ main_io.exported # <<>>
    /\ loaded.playbook = [LoadedPlaybook EXCEPT !.updated_at = 0]
    /\ Len(playbook.items) > Len(loaded.playbook.items)
    /\ document = DocumentOf(playbook)

\* the names of the tool invocations among the messages of a stream
RECURSIVE ToolNamesOf(_, _)
ToolNamesOf(messages, i) ==
    IF i > Len(messages) THEN <<>>
    ELSE (IF messages[i].kind = "tool_use" THEN <<messages[i].name>> ELSE <<>>)
         \o ToolNamesOf(messages, i + 1)

\* C27: the tool-name history of the curator belongs to one run: a run_task
\* call starts with the empty history, the history holds the names of the
\* tool invocations received as outer messages of this run and a duplicate
\* flag needs three identical invocations in this run.
C27_HistoryPerRun ==
    /\ pc \in {"main", "start"} => tool_history = <<>>
    /\ pc \in {"outer", "skill_start"} => tool_history = ToolNamesOf(outer, 1)
    /\ (pc \in {"outer", "skill_start"} /\ curator_summary.duplicate_patterns # <<>>) =>
          Len(ToolNamesOf(outer, 1)) >= 3

\* C28: the curator and the policy run once for each message of the outer
\* session, in the step in which it arrives, and for nothing else: a step
\* changes the curator's state or starts an escalation only if it receives an
\* outer message, the message evaluated is the one just received, the history
\* holds the tool invocations of the outer stream only, and a step of the
\* sub-loop leaves the curator, its history and the decision alone.
C28_OncePerOuterMessage ==
    [][/\ Len(outer') \in {Len(outer), Len(outer) + 1}
       /\ Len(outer') = Len(outer) + 1 =>
             /\ inners' = inners
             /\ msg' = Last(trajectory'.messages)
             /\ msg'.src = "outer" /\ msg'.seq = Len(outer')
             /\ curator_summary' = SummarizeForOuterLoop(tool_history, trajectory', msg')
             /\ tool_history' = HistoryAfter(tool_history, msg')
             /\ escalate' = ShouldInvokeSkillLoop(msg', playbook, curator_summary')
             /\ pc' = IF escalate' THEN "skill_start" ELSE "outer"
       /\ Len(outer') = Len(outer) =>
             /\ UNCHANGED curatorVars
             /\ pc' # "skill_start"
       /\ tool_history' = ToolNamesOf(outer', 1)]_vars

\* an outer message was evaluated after a sub-loop which had yielded a tool
\* invocation: the history holds the outer invocations only
C28_Witness ==
    /\ pc = "outer"
    /\ Len(inners) >= 1
    /\ \E i \in 1..Len(inners[1]) : inners[1][i].kind = "tool_use"
    /\ Len(outer) >= 2
    /\ msg.seq = Len(outer) /\ msg.kind = "tool_use"
    /\ queries # <<TaskPrompt>>
    /\ tool_history = ToolNamesOf(outer, 1)
    /\ \A i \in 1..Len(tool_history) : tool_history[i] # "Write"

\* C29: the conditions are tried in the order explicit request, token
\* budget, keyword, duplicate pattern, the first that holds decides and is
\* the one reported in the log: an explicit start_skill_loop request is
\* reported as the explicit request, not as the token budget.
C29_ReportedCondition ==
    pc = "evaluated" =>
        ShouldInvokeSkillLoopLog(msg, playbook, curator_summary) =
            (IF C7_Explicit THEN "Curator explicitly requested skill loop start"
             ELSE IF C7_Budget THEN "Curator requested inner skill loop based on token budget"
             ELSE IF C7_Keyword THEN "Detected skill keyword in assistant message"
             ELSE IF C7_Duplicate THEN "Duplicate tool patterns detected; triggering skill loop"
             ELSE "")

\* C30: an evaluation by the curator changes nothing but the tool-name
\* history, and the history only for a tool invocation, by appending its name:
\* the trajectory (messages and delta updates), the playbook and the message
\* with its tags are as before, and any other message leaves the history alone.
C30_FrameOfEvaluation ==
    [][pc' = "evaluated" =>
        /\ trajectory' = trajectory
        /\ playbook' = playbook
        /\ merge_call' = merge_call
        /\ msg' \in PolicyMessages
        /\ msg'.kind = "tool_use" => tool_history' = Append(tool_history, msg'.name)
        /\ msg'.kind # "tool_use" => tool_history' = tool_history]_vars

\* an assistant message was evaluated after two tool invocations, with delta
\* updates in the trajectory: the history still holds the two names
C30_Witness ==
    /\ pc = "evaluated"
    /\ msg.kind = "assistant"
    /\ Len(tool_history) = 2
    /\ Len(trajectory.delta_updates) >= 1
    /\ trajectory.messages = <<>>
    /\ curator_summary.duplicate_patterns = <<>>

\* the items of one type, in the order of the playbook
C31_Items(items, item_type) == SelectSeq(items, LAMBDA item : item.type = item_type)

\* C31: between the load and the end of the caller only validate_and_merge
\* changes items, version or token_budget of the playbook (the save, the
\* curator, the policy and to_context_dict do not), and the context handed to
\* a SkillLoop holds the names of the skill items, the constraint items, the
\* reference items and the version of the playbook at that time.
C31_OnlyMergeMutates ==
    [][/\ (pc # "main" /\ <<playbook'.items, playbook'.version, playbook'.token_budget>>
                           # <<playbook.items, playbook.version, playbook.token_budget>>) =>
             /\ pc = "merge"
             /\ merge_call'.n = merge_call.n + 1
             /\ playbook'.token_budget = playbook.token_budget
       /\ (pc \in {"done", "exported"} /\ pc' = "saved") =>
             playbook' = [playbook EXCEPT !.updated_at = clock]
       /\ (pc = "skill_start" /\ pc' = "inner") =>
             LET skills == C31_Items(playbook.items, "skill")
             IN  /\ playbook' = playbook
                 /\ playbook_context'.existing_skills =
                       [i \in 1..Len(skills) |-> skills[i].name]
                 /\ playbook_context'.constraints = C31_Items(playbook.items, "constraint")
                 /\ playbook_context'.references = C31_Items(playbook.items, "reference")
                 /\ playbook_context'.version = playbook.version]_vars

\* the second sub-loop of a run on a loaded playbook was given a context with
\* skills, a constraint and a reference, after a merge had added items
C31_Witness ==
    /\ pc = "inner"
    /\ Len(inners) = 2
    /\ merge_call.n = 1
    /\ playbook_context = ToContextDict(playbook)
    /\ playbook_context.constraints # <<>>
    /\ playbook_context.references # <<>>
    /\ Len(playbook_context.existing_skills) >= 3
    /\ playbook_context.version = 2
    /\ \E i \in 1..Len(playbook.items) : playbook.items[i].type = "clarification"

\* the names of the skill items the playbook held before the latest merge
C32_Existing ==
    {merge_call.before.items[i].name : i \in SkillItemsOf(merge_call.before.items)}

\* C32: a merge at pre-merge version v names the snippet at index i skill_v_i
\* and accepts it as a skill item with the snippet as code, the number of tool
\* calls and the duration of the summary, unless a skill item of that name
\* existed: then that snippet alone is skipped.  The accepted skill items are
\* those of the snippets not skipped, in index order.
C32_SnippetNames ==
    merge_call.n > 0 =>
        LET v == merge_call.before.version
            summary == merge_call.summary
            skills == SelectSeq(merge_call.accepted, LAMBDA item : item.type = "skill")
            kept == {i \in 0..(Len(summary.runbook_snippets) - 1) :
                        SkillName(v, i) \notin C32_Existing}
        IN  /\ Len(skills) = Cardinality(kept)
            /\ \A k \in 1..Len(skills) :
                  \E i \in kept :
                      /\ Cardinality({j \in kept : j < i}) = k - 1
                      /\ skills[k].name = <<"skill", "_">> \o Digits(v) \o <<"_">> \o Digits(i)
                      /\ skills[k].code = summary.runbook_snippets[i + 1]
                      /\ skills[k].metadata = [tool_calls |-> Len(summary.tool_calls),
                                               duration |-> summary.duration_seconds]
                      /\ skills[k].accepted

\* the snippet at index 0 was skipped for its name and the one at index 1 added
C32_Witness ==
    /\ merge_call.n > 0
    /\ Len(merge_call.summary.runbook_snippets) >= 2
    /\ SkillName(merge_call.before.version, 0) \in C32_Existing
    /\ \E k \in 1..Len(merge_call.accepted) :
          /\ merge_call.accepted[k].type = "skill"
          /\ merge_call.accepted[k].name = SkillName(merge_call.before.version, 1)
          /\ merge_call.accepted[k].code = merge_call.summary.runbook_snippets[2]
    /\ \A k \in 1..Len(merge_call.accepted) :
          merge_call.accepted[k].type = "skill" =>
              merge_call.accepted[k].name # SkillName(merge_call.before.version, 0)

\* the arguments pass the checks execute_task makes before any work
C33_InputsValid ==
    /\ \E i \in 1..Len(executor.task_prompt) : executor.task_prompt[i] \notin {" ", "\t", "\n"}
    /\ executor.directory_exists

C34_CleanedUp ==
    /\ [](pc \in {"returned", "raised"} =>
             /\ executor.handlers = {}
             /\ ~executor.transcript_writer
             /\ writer.file_handle = 0
             /\ ~writer.started)
    /\ [][pc = "returned" => transcript' = transcript]_vars

\* a failed run with a transcript and a progress callback: a hook wrote an
\* event during the run and a hook invoked after the return wrote nothing
C34_Witness ==
    /\ pc = "returned"
    /\ executor.transcript_path /\ executor.progress_callback
    /\ executor.log_handler /\ executor.transcript_context
    /\ writer.opened = 1
    /\ error = SessionError
    /\ executor.hooks = 2
    /\ Len(transcript) = 4
    /\ transcript[4].kind = "event"

\* the token estimate of the accumulated delta updates has reached the budget
C35_OverBudget ==
    /\ Len(trajectory.delta_updates) * 200 > 0
    /\ Len(trajectory.delta_updates) * 200 >= playbook.token_budget

\* C35: in a run the delta updates never shrink and the token budget never
\* changes, so once the estimate (200 per delta update) is > 0 and >= the
\* budget it stays so, and every outer message received from then on
\* escalates; an escalation whose sub-loop does not raise ends in one merge
\* and one context update.
C35_EscalatesFromThenOn ==
    /\ [][/\ Len(trajectory'.delta_updates) >= Len(trajectory.delta_updates)
          /\ playbook'.token_budget = playbook.token_budget
          /\ C35_OverBudget => C35_OverBudget'
          /\ (C35_OverBudget /\ Len(outer') = Len(outer) + 1) =>
                (escalate' /\ pc' = "skill_start")]_vars
    /\ [](pc \in {"outer", "done"} =>
             /\ merge_call.n = Len(inners)
             /\ Len(queries) = 1 + Len(inners))

\* on a playbook with budget 200 a first sub-loop added an item; the next
\* outer message, a tool invocation, escalated for the budget alone
C35_Witness ==
    /\ pc = "skill_start"
    /\ Len(inners) = 1
    /\ merge_call.n = 1
    /\ playbook.token_budget = 200
    /\ Len(trajectory.delta_updates) >= 1
    /\ msg.kind = "tool_use"
    /\ curator_summary.duplicate_patterns = <<>>
    /\ curator_summary.pending_requests = <<>>
    /\ escalate

\* the last three names of the history are the given name
C36_ThreeOf(history, name) ==
    /\ Len(history) >= 3
    /\ \A k \in (Len(history) - 2)..Len(history) : history[k] = name

\* C36: the history only grows, whatever the evaluation decided.  After three
\* recorded invocations of one tool the next invocation of that tool is
\* flagged and escalates again; an invocation of another tool is not flagged;
\* a message that is no tool invocation is not flagged and leaves the
\* history as it is.
C36_FlagsPersist ==
    [][pc' = "evaluated" =>
        /\ Len(tool_history') >= Len(tool_history)
        /\ SubSeq(tool_history', 1, Len(tool_history)) = tool_history
        /\ (msg'.kind = "tool_use" /\ C36_ThreeOf(tool_history, msg'.name)) =>
              /\ curator_summary'.duplicate_patterns = << <<"repeat:", msg'.name>> >>
              /\ escalate'
        /\ (msg'.kind = "tool_use" /\ tool_history # <<>>
                                   /\ tool_history[Len(tool_history)] # msg'.name) =>
              curator_summary'.duplicate_patterns = <<>>
        /\ msg'.kind # "tool_use" => curator_summary'.duplicate_patterns = <<>>]_vars

\* the fourth invocation in a row of one tool: flagged like the third, with
\* nothing else asking for an escalation
C36_Witness ==
    /\ pc = "evaluated"
    /\ tool_history = <<"Bash", "Bash", "Bash", "Bash">>
    /\ msg.kind = "tool_use"
    /\ curator_summary.duplicate_patterns = << <<"repeat:", "Bash">> >>
    /\ curator_summary.proposed_updates_token_count = 0
    /\ escalate

\* the playbook the run started with: the two playbooks a run may start
\* with have different token budgets, and no step of a run changes the budget
RunStartPlaybook == CHOOSE pb \in RunPlaybooks : pb.token_budget = playbook.token_budget

\* C37: at every point of run_task the trajectory's delta_updates are the
\* lists validate_and_merge returned so far, concatenated in the order of the
\* merges, and the playbook holds the items it started with followed by
\* exactly those deltas, so that its length is the starting length plus the
\* number of delta updates.  Stated stepwise: a merge appends the list it
\* returned to both, every other step leaves both alone, and both start empty
\* of deltas.
C37_DeltasAreMergeResults ==
    /\ [](/\ playbook.items = RunStartPlaybook.items \o trajectory.delta_updates
          /\ Len(playbook.items) = Len(RunStartPlaybook.items) + Len(trajectory.delta_updates))
    /\ [](pc = "start" => trajectory.delta_updates = <<>> /\ merge_call.n = 0)
    /\ [][IF merge_call'.n = merge_call.n + 1
          THEN /\ trajectory'.delta_updates =
                      trajectory.delta_updates \o merge_call'.accepted
               /\ playbook'.items = playbook.items \o merge_call'.accepted
          ELSE /\ merge_call'.n = merge_call.n
               /\ pc # "start" => trajectory'.delta_updates = trajectory.delta_updates
               /\ playbook'.items = playbook.items]_vars

\* two merges of one run have each returned a non-empty list, onto a
\* playbook that was loaded with items
C37_Witness ==
    /\ merge_call.n = 2
    /\ merge_call.accepted # <<>>
    /\ Len(trajectory.delta_updates) > Len(merge_call.accepted)
    /\ RunStartPlaybook.items # <<>>
    /\ trajectory.delta_updates[1] # Last(trajectory.delta_updates)

\* C38: when run_task returns normally the playbook's version is the version
\* it had when the run started plus the number of escalations of the run,
\* whatever the summaries' success flags were and whether or not they
\* contributed an item.  Every escalation of a run that returns normally ran
\* one sub-loop and one merge.
C38_VersionCountsEscalations ==
    /\ [](pc = "done" =>
            /\ merge_call.n = Len(inners)
            /\ playbook.version = RunStartPlaybook.version + Len(inners))
    /\ [][/\ escalate' /\ pc' = "skill_start" /\ pc = "outer" =>
                Len(inners') = Len(inners) /\ playbook'.version = playbook.version
          /\ pc = "skill_start" /\ pc' = "inner" => Len(inners') = Len(inners) + 1
          /\ pc = "merge" /\ pc' # "merge" => playbook'.version = playbook.version + 1]_vars

\* a run returned after two escalations, the second of which produced a
\* summary without success and without any accepted item
C38_Witness ==
    /\ pc = "done"
    /\ Len(inners) = 2
    /\ ~merge_call.summary.success
    /\ merge_call.accepted = <<>>
    /\ trajectory.delta_updates # <<>>
    /\ playbook.version = RunStartPlaybook.version + 2

\* no session of the run tagged a message it yielded with a loop_type
C39_NoPreTag ==
    /\ \A i \in 1..Len(outer) : outer[i].metadata.loop_type = NoTag
    /\ \A k \in 1..Len(inners) :
          \A j \in 1..Len(inners[k]) : inners[k][j].metadata.loop_type = NoTag

\* the messages of the k-th sub-loop as run_skill_sub_loop tagged them
C39_SubLoopMessages(k) ==
    [j \in 1..Len(inners[k]) |->
        TagIfAbsent(inners[k][j], "skill", SkillTrajectoryId(trajectory.task_id, k))]

\* the tagged messages of the sub-loops from the k-th on that yielded any
RECURSIVE C39_YieldingSubLoops(_)
C39_YieldingSubLoops(k) ==
    IF k > Len(inners) THEN <<>>
    ELSE IF inners[k] = <<>> THEN C39_YieldingSubLoops(k + 1)
         ELSE <<C39_SubLoopMessages(k)>> \o C39_YieldingSubLoops(k + 1)

\* C39: provided the sessions do not tag their messages themselves,
\* get_skill_sessions returns one run per sub-loop that yielded at least one
\* message, in the order of the sub-loops, the i-th run being the messages of
\* the i-th such sub-loop in the order they were yielded; the runs of two
\* sub-loops are never merged.
C39_OneRunPerSubLoop ==
    C39_NoPreTag => GetSkillSessions(trajectory) = C39_YieldingSubLoops(1)

\* three sub-loops ran, one of them yielding nothing, and two runs are returned
C39_Witness ==
    /\ C39_NoPreTag
    /\ Len(inners) = 3
    /\ \E k \in 1..3 : inners[k] = <<>>
    /\ Len(GetSkillSessions(trajectory)) = 2
    /\ pc = "done"

\* C40: if run_task raises, save is not called: the persisted document is
\* left exactly as it was, even when earlier sub-loops of the run merged items
\* and incremented the in-memory version.  Stated stepwise: a raise is final
\* and excludes a normal return, no save has happened when the run raises,
\* and the document changes only in a step taken after run_task returned
\* normally.
C40_NoSaveAfterRaise ==
    /\ [](error # NoError => returned = <<>> /\ main_io.saves = 0)
    /\ [][error # NoError => /\ error' = error
                             /\ document' = document
                             /\ main_io'.saves = main_io.saves]_vars
    /\ [][document' # document \/ main_io'.saves # main_io.saves =>
                error' = NoError /\ returned # <<>>]_vars

\* run_task raised after a sub-loop merged an item into a loaded playbook:
\* the memory is ahead of the document, which is still the one loaded
C40_Witness ==
    /\ pc = "failed"
    /\ error # NoError
    /\ merge_call.n >= 1
    /\ trajectory.delta_updates # <<>>
    /\ playbook.version > LoadedPlaybook.version
    /\ Len(playbook.items) > Len(LoadedPlaybook.items)
    /\ document = DocumentOf(LoadedPlaybook)
    /\ main_io.saves = 0

====
